---------------------------- MODULE Spec2Model ----------------------------
(***************************************************************************)
(* Voice Note Processor (package whisper_2_0): the processing queue, the   *)
(* processed ledger, the pipeline coordinator, transcription, the audio    *)
(* chunker, the converter of markdown to Notion blocks, the cleaning of a   *)
(* summarization response, the splitter of meeting recordings and the      *)
(* folder watcher.                                                         *)
(*                                                                         *)
(* Strings are sequences of one-character strings, so that strip(),        *)
(* startswith() and split() are computed as Python computes them.  A text  *)
(* file is the sequence of its lines (no line holds a newline).            *)
(***************************************************************************)
EXTENDS Integers, Sequences, FiniteSets, TLC

\* ------------------------------------------------------------- bounds
MaxQueue == 3      \* most items a command may leave in the queue
MaxBatch == 2      \* most items passed to one add_to_queue call
MaxRuns == 3       \* most process_queue_item calls in one behaviour
MaxChunks == 2     \* most chunks an audio file is split into
MaxDurationMs == 4 \* longest audio, in milliseconds
MaxSizeBytes == 4  \* largest size ceiling of a chunk, in bytes
MaxLines == 3      \* most lines of a content given to the block converter
MaxText == 8       \* longest text given to parse_rich_text, in characters
MaxResponse == 3   \* most lines of a response given to clean_ai_response
MaxFileBytes == 10 \* largest meeting recording, in bytes
NOTION_MAX_CHUNK_SIZE == 3 \* characters per block (2000 in config.py)

\* ------------------------------------------------------------- strings
Whitespace == {" ", "\t"}

RECURSIVE lstrip(_)
lstrip(s) ==
    IF s # <<>> /\ Head(s) \in Whitespace THEN lstrip(Tail(s)) ELSE s

RECURSIVE rstrip(_)
rstrip(s) ==
    IF s # <<>> /\ s[Len(s)] \in Whitespace
    THEN rstrip(SubSeq(s, 1, Len(s) - 1))
    ELSE s

\* str.strip()
strip(s) == rstrip(lstrip(s))

\* str.startswith(prefix)
startswith(s, prefix) ==
    Len(s) >= Len(prefix) /\ SubSeq(s, 1, Len(prefix)) = prefix

\* x in list
In(x, list) == \E i \in 1..Len(list) : list[i] = x

\* list.count(x)
Count(x, list) == Cardinality({i \in 1..Len(list) : list[i] = x})

\* A list.remove(x) that deletes the last entry equal to x
RemoveLast(list, x) ==
    LET i == CHOOSE k \in 1..Len(list) :
                 list[k] = x /\ \A j \in (k + 1)..Len(list) : list[j] # x
    IN  SubSeq(list, 1, i - 1) \o SubSeq(list, i + 1, Len(list))

\* list.remove(x): deletes the first entry equal to x
RemoveFirst(list, x) ==
    LET i == CHOOSE k \in 1..Len(list) :
                 list[k] = x /\ \A j \in 1..(k - 1) : list[j] # x
    IN  SubSeq(list, 1, i - 1) \o SubSeq(list, i + 1, Len(list))

NoDuplicates(list) ==
    \A i, j \in 1..Len(list) : list[i] = list[j] => i = j

IsPrefix(s, t) == Len(s) <= Len(t) /\ SubSeq(t, 1, Len(s)) = s

\* All lists of 1..n elements of S
ListsUpTo(S, n) == UNION {[1..k -> S] : k \in 1..n}

\* ------------------------------------------------------------- state
VARIABLES
    queueExists,   \* os.path.exists(config.QUEUE_FILE)
    queueFile,     \* the lines of config.QUEUE_FILE
    saved,         \* history: the list passed to the latest save_queue call
    lastCall,      \* history: the latest call that AddCall or RemoveCall made
    prevCall,      \* history: the call before lastCall
    fsFiles,       \* the paths of the local files that exist
    ledger,        \* the lines of config.PROCESSED_FILES_LOG
    handler,       \* the handler that is running, or "idle"
    work,          \* the items the running handler iterates over
    idx,           \* the position in work of the item being processed
    pc,            \* the next step of process_queue_item / process_file
    item,          \* process_queue_item's item
    file_path,     \* resolve_file_path(item); NoPath for None
    transcript,    \* process_file's transcript
    summary,       \* process_file's summary: who produced it
    backup_path,   \* process_file's backup_path
    result,        \* process_file's result (of add_to_notion)
    success,       \* what process_queue_item returned
    confirm,       \* the operator's answer to "Remove from queue anyway?"
    runs,          \* process_queue_item calls so far
    ledger0,       \* history: the ledger when process_queue_item was called
    queue0,        \* history: load_queue() when process_queue_item was called
    sumCalls,      \* history: the summarization calls made for the item
    backup_content,\* the content passed to save_backup_markdown
    notion_content,\* the content passed to add_to_notion
    snapshot,      \* history: load_queue() when the running handler started
    attempts,      \* history: the items the running handler has attempted
    tpc,           \* the next step of transcribe_audio_file
    audio,         \* transcribe_audio_file's file_path: None, missing, a file
    groq_client,   \* whether api_clients.groq_client is set
    num_chunks,    \* the chunks the audio file splits into
    temp_chunks,   \* the directory config.TEMP_CHUNK_SUBDIR and its files
    temp_chunks0,  \* history: temp_chunks when transcribe_audio_file was called
    chunk_files,   \* the list create_audio_chunks returned
    transcribed_texts, \* transcribe_chunks' transcribed_texts
    apiCalls,      \* history: the transcription requests made, in order
    chunkings,     \* history: the create_audio_chunks calls made, in order
    t_result,      \* what transcribe_audio_file returned or raised
    plan_args,     \* the arguments of the latest estimate_segment_duration_ms
    plan_result,   \* what estimate_segment_duration_ms returned
    slice_args,    \* the audio and settings of the latest create_audio_chunks
    chunk_slices,  \* the slices create_audio_chunks exported, in order
    cpc,           \* which converter function is being called, or "idle"
    content_lines, \* the lines of the content being converted to blocks
    blocks,        \* what parse_markdown_to_notion_blocks returned
    text_in,       \* the text given to parse_rich_text
    rich_text_out, \* what parse_rich_text returned
    spc,           \* the scanning loop of the block converter: its position
    scan_lines,    \* the lines the scanning loop goes over
    scan_i,        \* the loop's line index i, counted from 1
    consumed,      \* history: how many turns of the loop took each line
    kpc,           \* whether clean_ai_response has been called
    response_in,   \* clean_ai_response's response_text
    cleaned_out,   \* what clean_ai_response returned
    mpc,           \* the next step of process_meetings.process_new_file
    split_args,    \* the size of the file and the ceiling of a chunk, in bytes
    dirs,          \* which of the file's directory and the mkdtemp directory exist
    temp_files,    \* the sizes of the files in the mkdtemp directory
    meeting_chunks,\* process_new_file's chunk_files
    chunks_created,\* process_new_file's chunks_created
    watch_dir,     \* the files of the watched folder
    observing,     \* whether the observer is scheduled and started
    events,        \* the created files the observer has yet to report
    to_scan,       \* what is left of process_existing_files' directory listing
    main_pc,       \* where FileWatcherService.start is on the calling thread
    wpc,           \* where each thread is in on_created
    wpath,         \* each thread's file_path in on_created
    processed_files, \* AudioFileHandler.processed_files
    callbacks      \* history: how often the callback was given each path

queueVars == <<queueExists, queueFile, saved>>
histVars == <<lastCall, prevCall>>
diskVars == <<fsFiles, ledger>>
itemVars == <<item, file_path, transcript, summary, backup_path, result,
              success, confirm, ledger0, queue0, sumCalls, backup_content,
              notion_content>>
runVars == <<handler, work, idx, pc, runs, snapshot, attempts>>
coordVars == <<queueVars, histVars, diskVars, itemVars, runVars>>
transVars == <<tpc, audio, groq_client, num_chunks, temp_chunks, temp_chunks0,
               chunk_files, transcribed_texts, apiCalls, chunkings, t_result>>
planVars == <<plan_args, plan_result>>
sliceVars == <<slice_args, chunk_slices>>
convVars == <<cpc, content_lines, blocks, text_in, rich_text_out>>
scanVars == <<spc, scan_lines, scan_i, consumed>>
cleanVars == <<kpc, response_in, cleaned_out>>
meetVars == <<mpc, split_args, dirs, temp_files, meeting_chunks,
              chunks_created>>
watchVars == <<watch_dir, observing, events, to_scan, main_pc, wpc, wpath,
               processed_files, callbacks>>
sideVars == <<scanVars, cleanVars, meetVars, watchVars>>
funcVars == <<transVars, planVars, sliceVars, convVars, sideVars>>
vars == <<coordVars, funcVars>>

\* ------------------------------------------------------------- queue file
QUEUE_HEADER ==
    << <<"#", " ", "V", "o", "i", "c", "e", " ", "N", "o", "t", "e", " ", "P",
         "r", "o", "c", "e", "s", "s", "i", "n", "g", " ", "Q", "u", "e", "u", "e">>,
       <<"#", " ", "F", "o", "r", "m", "a", "t", ":", " ", "f", "i", "l", "e", "_",
         "p", "a", "t", "h", "_", "o", "r", "_", "u", "r", "l">>,
       <<"#", " ", "L", "i", "n", "e", "s", " ", "s", "t", "a", "r", "t", "i", "n",
         "g", " ", "w", "i", "t", "h", " ", "#", " ", "a", "r", "e", " ", "c", "o",
         "m", "m", "e", "n", "t", "s">>,
       <<>> >>

\* The test of load_queue's loop body, on a stripped line
IsQueueLine(line) == line # <<>> /\ ~startswith(line, <<"#">>)

\* load_queue() on a queue file
load_queue(exists, lines) ==
    IF exists
    THEN SelectSeq([i \in 1..Len(lines) |-> strip(lines[i])], IsQueueLine)
    ELSE <<>>

\* The lines save_queue(queue_items) writes
save_queue(queue_items) == QUEUE_HEADER \o queue_items

\* add_to_queue's loop without its membership test
AppendAlways(current_queue, items) == current_queue \o items

\* The loop of add_to_queue: append every item that is not in current_queue
RECURSIVE AppendNew(_, _)
AppendNew(current_queue, items) ==
    IF items = <<>> THEN current_queue
    ELSE AppendNew(IF In(Head(items), current_queue)
                   THEN current_queue
                   ELSE Append(current_queue, Head(items)),
                   Tail(items))

Queue == load_queue(queueExists, queueFile)

\* utils.add_to_queue(items)
add_to_queue(items) ==
    LET current_queue == AppendNew(Queue, items)
    IN  /\ queueExists' = TRUE
        /\ queueFile' = save_queue(current_queue)
        /\ saved' = [called |-> TRUE, items |-> current_queue]

\* utils.remove_from_queue(x)
remove_from_queue(x) ==
    IF In(x, Queue)
    THEN LET current_queue == RemoveFirst(Queue, x)
         IN  /\ queueExists' = TRUE
             /\ queueFile' = save_queue(current_queue)
             /\ saved' = [called |-> TRUE, items |-> current_queue]
    ELSE UNCHANGED <<queueExists, queueFile, saved>>

\* ------------------------------------------------------------- paths
NoPath == <<>>     \* None, where a path is expected

HTTP == <<"h", "t", "t", "p", ":", "/", "/">>
HTTPS == <<"h", "t", "t", "p", "s", ":", "/", "/">>
TEMP_DOWNLOAD_DIR ==
    <<"t", "e", "m", "p", "_", "d", "o", "w", "n", "l", "o", "a", "d", "s">>

\* utils.is_url(item)
is_url(it) == startswith(it, HTTP) \/ startswith(it, HTTPS)

\* s.split(sep)[-1]
RECURSIVE LastSegment(_, _)
LastSegment(s, sep) ==
    IF \E i \in 1..Len(s) : s[i] = sep
    THEN LastSegment(Tail(s), sep)
    ELSE s

\* os.path.basename(path)
basename(path) == LastSegment(path, "/")

\* os.path.splitext(name)[0]: cut the last suffix, unless the name has no
\* dot after its leading dots
RECURSIVE LeadingDots(_)
LeadingDots(name) ==
    IF name # <<>> /\ Head(name) = "." THEN 1 + LeadingDots(Tail(name)) ELSE 0

splitext_root(name) ==
    LET dots == {i \in 1..Len(name) : name[i] = "." /\ i > LeadingDots(name)}
    IN  IF dots = {} THEN name
        ELSE SubSeq(name, 1, (CHOOSE i \in dots : \A j \in dots : j <= i) - 1)

\* The title process_file gives the backup and the page
title_of(path) == splitext_root(basename(path))

\* The name download_audio_file gives the downloaded file, at time now
download_filename(url, now) ==
    LET filename == LastSegment(url, "/")
    IN  IF \E i \in 1..Len(filename) : filename[i] = "."
        THEN filename
        ELSE <<"d", "o", "w", "n", "l", "o", "a", "d", "e", "d", "_", "a", "u",
               "d", "i", "o", "_">> \o now \o <<".", "m", "p", "3">>

\* os.path.join(temp_dir, filename)
path_join(dir, filename) == dir \o <<"/">> \o filename

\* The path download_audio_file(url, temp_dir) returns when the download
\* succeeds
download_path(url, temp_dir, now) ==
    path_join(temp_dir, download_filename(url, now))

\* int(time.time()), as the digits of a file name
Clock == { <<"0">> }

\* ------------------------------------------------------------- ledger
\* The log opened for writing instead of appending
mark_as_processed_rewrite(log, path) == <<path>>

\* The ledger after utils.mark_as_processed(path): one line appended
mark_as_processed(log, path) == Append(log, path)

\* ------------------------------------------------------------- transcription
\* The temporary chunk directory (config.TEMP_CHUNK_SUBDIR) when it does not
\* exist
NoDir == [exists |-> FALSE, files |-> {}]

\* The text of a transcribed chunk, as the services answer: nothing, or a
\* word of the service followed by a blank
Responses(service) ==
    { <<>>, <<(IF service = "groq" THEN "g" ELSE "o"), " ">> }

\* "\n\n".join(transcribed_texts)
RECURSIVE Join(_)
Join(texts) ==
    IF texts = <<>> THEN <<>>
    ELSE IF Len(texts) = 1 THEN texts[1]
    ELSE texts[1] \o <<"\n\n">> \o Join(Tail(texts))

\* Chunks left where they are when the function is done
keep_temp_chunks(dir) == dir

\* The finally blocks of transcribe_with_groq and transcribe_audio_file:
\* shutil.rmtree(config.TEMP_CHUNK_SUBDIR) if it exists
remove_temp_chunks(dir) == NoDir

\* A provider pass that returns the chunks transcribed before the failure
PartialTexts(texts) == [kind |-> "text", text |-> Join(texts)]

\* transcribe_chunks' except branch: whatever was transcribed, return None
NoTexts(texts) == [kind |-> "None", text |-> <<>>]

\* A fallback that is tried whatever Groq returned
FallsBackAlways(text) == TRUE

\* transcribe_audio_file's "if transcript: return transcript": OpenAI is
\* tried when Groq gave None or an empty transcript
FallsBack(text) == text = <<>>

\* No call of transcribe_audio_file is running
TranscribeIdle ==
    /\ tpc = "idle"
    /\ audio = "None"
    /\ groq_client = FALSE
    /\ num_chunks = 0
    /\ chunk_files = <<>>
    /\ transcribed_texts = <<>>
    /\ apiCalls = <<>>
    /\ chunkings = <<>>
    /\ t_result = [kind |-> "pending", text |-> <<>>]
    /\ temp_chunks0 = NoDir

\* transcribe_audio_file(file_path) is called, in a process where
\* api_clients.groq_client is client, on a path that is None, has no file
\* behind it, or is an audio file that splits into n chunks
CallTranscribe ==
    \E path \in {"None", "missing", "file"}, client \in BOOLEAN,
       n \in 1..MaxChunks :
        /\ tpc = "idle"
        /\ audio' = path
        /\ groq_client' = client
        /\ num_chunks' = IF path = "file" THEN n ELSE 0
        /\ temp_chunks0' = temp_chunks
        /\ apiCalls' = <<>>
        /\ chunkings' = <<>>
        /\ chunk_files' = <<>>
        /\ transcribed_texts' = <<>>
        /\ IF path = "file"
           THEN /\ tpc' = "groq"
                /\ t_result' = [kind |-> "pending", text |-> <<>>]
           ELSE /\ tpc' = "returned"
                /\ t_result' = [kind |-> "None", text |-> <<>>]
        /\ UNCHANGED <<temp_chunks, planVars, sliceVars, convVars, sideVars, coordVars>>

\* A fallback chain that gives up when a provider got no chunks
GivesUp(service) == "returned"

\* Where transcribe_audio_file goes when create_audio_chunks gave no chunks
\* for the service: transcribe_with_groq returns None and OpenAI is tried;
\* for OpenAI, None is returned
AfterNoChunks(service) == IF service = "groq" THEN "openai" ELSE "returned"

\* A chunk directory that keeps what it held and receives the new files
StaleDir(dir, files) == [exists |-> TRUE, files |-> dir.files \cup files]

\* create_audio_chunks' directory after its exports: whatever dir held is
\* removed with the directory (shutil.rmtree), the directory is made again
\* and holds the exported files only
FreshDir(dir, files) == [exists |-> TRUE, files |-> files]

\* create_audio_chunks(file_path) for a service, and what its caller does
\* with an empty list.  The directory is removed and made again; then the
\* chunks are exported ("chunks"), or an exception inside the try block
\* leaves the first k of them and [] is returned ("failed"), or os.makedirs
\* raises after the directory was removed ("raised").  With [] the caller
\* returns None through its finally block.
CreateChunks(service) ==
    \E outcome \in {"chunks", "failed", "raised"}, k \in 0..(num_chunks - 1) :
        /\ outcome = "chunks" => k = 0
        /\ outcome = "raised" => k = 0
        /\ transcribed_texts' = <<>>
        /\ chunkings' = Append(chunkings,
                               [service |-> service, outcome |-> outcome])
        /\ IF outcome = "chunks"
           THEN /\ temp_chunks' = FreshDir(temp_chunks, 1..num_chunks)
                /\ chunk_files' = [i \in 1..num_chunks |-> i]
                /\ tpc' = IF service = "groq"
                          THEN "groq_chunks" ELSE "openai_chunks"
                /\ UNCHANGED t_result
           ELSE IF outcome = "failed"
           THEN /\ temp_chunks' =
                     remove_temp_chunks(FreshDir(temp_chunks, 1..k))
                /\ chunk_files' = <<>>
                /\ tpc' = AfterNoChunks(service)
                /\ t_result' = IF AfterNoChunks(service) = "returned"
                               THEN [kind |-> "None", text |-> <<>>]
                               ELSE t_result
           ELSE /\ temp_chunks' = remove_temp_chunks(NoDir)
                /\ chunk_files' = <<>>
                /\ tpc' = "raised"
                /\ t_result' = [kind |-> "raised", text |-> <<>>]

\* A Groq pass that does not look at the credential
ConfiguredAlways(client) == TRUE

\* transcribe_with_groq's "if not api_clients.groq_client"
Configured(client) == client

\* transcribe_with_groq up to its call of transcribe_chunks: without a Groq
\* client it returns None at once
GroqPass ==
    /\ tpc = "groq"
    /\ IF Configured(groq_client)
       THEN CreateChunks("groq")
       ELSE /\ tpc' = "openai"
            /\ UNCHANGED <<temp_chunks, chunk_files, transcribed_texts,
                           chunkings, t_result>>
    /\ UNCHANGED <<audio, groq_client, num_chunks, temp_chunks0, apiCalls,
                   planVars, sliceVars, convVars, sideVars, coordVars>>

\* transcribe_audio_file after Groq gave nothing: the chunks are made again
\* for OpenAI
OpenAIPass ==
    /\ tpc = "openai"
    /\ CreateChunks("openai")
    /\ UNCHANGED <<audio, groq_client, num_chunks, temp_chunks0, apiCalls,
                   planVars, sliceVars, convVars, sideVars, coordVars>>

\* A loop that sends the last chunk first
LastFirst(sent, n) == n - sent

\* transcribe_chunks' "for i, chunk_file_path in enumerate(chunk_files)":
\* the position of the chunk sent after sent chunks, of n
InOrder(sent, n) == sent + 1

\* One turn of transcribe_chunks' loop: the next chunk is sent to the
\* service and the call returns before anything else happens.  An exception
\* ends the pass with None; after the last chunk the texts are joined.  The
\* caller's finally block removes the directory, and transcribe_audio_file
\* returns the transcript or goes on to OpenAI.
TranscribeChunk ==
    /\ tpc \in {"groq_chunks", "openai_chunks"}
    /\ LET service == IF tpc = "groq_chunks" THEN "groq" ELSE "openai"
           sent == Len(transcribed_texts)
           i == InOrder(sent, Len(chunk_files))
           supported == (service = "groq" /\ groq_client) \/ service = "openai"
       IN  \E raised \in BOOLEAN, response \in Responses(service) :
             LET texts == Append(transcribed_texts, strip(response))
                 done == raised \/ ~supported \/ sent + 1 = Len(chunk_files)
                 pass == IF raised \/ ~supported
                         THEN NoTexts(transcribed_texts)
                         ELSE [kind |-> "text", text |-> Join(texts)]
             IN  /\ raised => response = <<>>
                 /\ apiCalls' =
                      IF supported
                      THEN Append(apiCalls,
                                  [service |-> service, chunk |-> chunk_files[i],
                                   raised |-> raised, text |-> response])
                      ELSE apiCalls
                 /\ transcribed_texts' = IF done THEN <<>> ELSE texts
                 /\ temp_chunks' = IF done
                                   THEN remove_temp_chunks(temp_chunks)
                                   ELSE temp_chunks
                 /\ chunk_files' = IF done THEN <<>> ELSE chunk_files
                 /\ IF ~done
                    THEN UNCHANGED <<tpc, t_result>>
                    ELSE IF service = "groq" /\ FallsBack(pass.text)
                    THEN /\ tpc' = "openai"
                         /\ UNCHANGED t_result
                    ELSE /\ tpc' = "returned"
                         /\ t_result' = pass
    /\ UNCHANGED <<audio, groq_client, num_chunks, temp_chunks0, chunkings,
                   planVars, sliceVars, convVars, sideVars, coordVars>>

\* The caller takes what transcribe_audio_file returned or raised
TranscribeReturns ==
    /\ tpc \in {"returned", "raised"}
    /\ tpc' = "idle"
    /\ audio' = "None"
    /\ groq_client' = FALSE
    /\ num_chunks' = 0
    /\ chunk_files' = <<>>
    /\ transcribed_texts' = <<>>
    /\ apiCalls' = <<>>
    /\ chunkings' = <<>>
    /\ t_result' = [kind |-> "pending", text |-> <<>>]
    /\ temp_chunks0' = NoDir
    /\ UNCHANGED <<temp_chunks, planVars, sliceVars, convVars, sideVars, coordVars>>

\* The process is killed while chunks are being transcribed: the directory
\* stays as it is
Crash ==
    /\ tpc \in {"groq_chunks", "openai_chunks"}
    /\ tpc' = "idle"
    /\ audio' = "None"
    /\ groq_client' = FALSE
    /\ num_chunks' = 0
    /\ chunk_files' = <<>>
    /\ transcribed_texts' = <<>>
    /\ apiCalls' = <<>>
    /\ chunkings' = <<>>
    /\ t_result' = [kind |-> "pending", text |-> <<>>]
    /\ temp_chunks0' = NoDir
    /\ UNCHANGED <<temp_chunks, planVars, sliceVars, convVars, sideVars, coordVars>>

\* ------------------------------------------------------------- segment planner
\* str.replace("k", "")
remove_k(s) == LET NotK(c) == c # "k" IN SelectSeq(s, NotK)

DigitValue ==
    ("0" :> 0) @@ ("1" :> 1) @@ ("2" :> 2) @@ ("3" :> 3) @@ ("4" :> 4) @@
    ("5" :> 5) @@ ("6" :> 6) @@ ("7" :> 7) @@ ("8" :> 8) @@ ("9" :> 9)

\* The value of a string of decimal digits
RECURSIVE Decimal(_)
Decimal(ds) ==
    IF ds = <<>> THEN 0
    ELSE 10 * Decimal(SubSeq(ds, 1, Len(ds) - 1)) + DigitValue[ds[Len(ds)]]

\* int(s): surrounding whitespace and one sign are allowed, then digits;
\* anything else is a ValueError (ok is FALSE)
int(s) ==
    LET t == strip(s)
        signed == t # <<>> /\ Head(t) \in {"+", "-"}
        ds == IF signed THEN Tail(t) ELSE t
    IN  IF ds # <<>> /\ \A i \in 1..Len(ds) : ds[i] \in DOMAIN DigitValue
        THEN [ok |-> TRUE,
              value |-> IF signed /\ Head(t) = "-"
                        THEN 0 - Decimal(ds) ELSE Decimal(ds)]
        ELSE [ok |-> FALSE, value |-> 0]

\* None, where a duration is expected
NoDuration == [kind |-> "None", ms |-> 0]

\* A planner that does not clamp to the duration of the source
Unclamped(estimated, duration) == estimated

\* min(estimated_chunk_duration_ms, audio_duration_ms)
Clamped(estimated, duration) ==
    IF estimated <= duration THEN estimated ELSE duration

\* A test that lets every number through
NeverFalsy(n) == FALSE

\* "not n" for a number n, as in "not audio_duration_ms"
Falsy(n) == n = 0

\* estimate_segment_duration_ms.  The code computes the quotient in double
\* precision; for sizes below 2^49 bytes its floor is never above the floor
\* of the exact quotient, which is what is computed here.
estimate_segment_duration_ms(audio_duration_ms, audio_channels, target_bitrate_kbps_str, max_size_bytes) ==
    IF target_bitrate_kbps_str = <<>> \/ Falsy(audio_duration_ms)
          \/ Falsy(max_size_bytes)
    THEN NoDuration
    ELSE LET target_bitrate_kbps == int(remove_k(target_bitrate_kbps_str))
         IN  IF ~target_bitrate_kbps.ok \/ target_bitrate_kbps.value <= 0
             THEN NoDuration
             ELSE LET bits_per_second == target_bitrate_kbps.value * 1000
                      estimated_chunk_duration_ms ==
                          (max_size_bytes * 8 * 1000) \div bits_per_second
                  IN  [kind |-> "ms",
                       ms |-> Clamped(estimated_chunk_duration_ms,
                                      audio_duration_ms)]

\* Bitrate strings: well formed, zero, negative, without digits, not a number
Bitrates ==
    { <<"1", "k">>, <<"2", "k">>, <<"3", "k">>, <<"8", "k">>, <<"1", "2", "k">>,
      <<"0", "k">>, <<"-", "1", "k">>, <<"k">>, <<"x">>, <<>> }

Durations == (0 - 1)..MaxDurationMs
Sizes == 0..MaxSizeBytes

\* estimate_segment_duration_ms is called
Plan ==
    \E d \in Durations, channels \in 1..2, bitrate \in Bitrates, m \in Sizes :
        /\ plan_args' = [called |-> TRUE, audio_duration_ms |-> d,
                         audio_channels |-> channels,
                         target_bitrate_kbps_str |-> bitrate,
                         max_size_bytes |-> m]
        /\ plan_result' = estimate_segment_duration_ms(d, channels, bitrate, m)
        /\ UNCHANGED <<transVars, sliceVars, convVars, sideVars, coordVars>>

\* ------------------------------------------------------------- chunker
\* A chunk count that is rounded down
floor(a, b) == a \div b

\* math.ceil(a / b) for a positive b
ceil(a, b) == (a + b - 1) \div b

\* A slice that starts where it should end
StartsAfter(i, segment_duration_ms) == (i + 1) * segment_duration_ms

\* create_audio_chunks' "start_ms = i * segment_duration_ms"
SliceStart(i, segment_duration_ms) == i * segment_duration_ms

Min(a, b) == IF a <= b THEN a ELSE b

\* The slice audio[start_ms:end_ms] of turn i of create_audio_chunks' loop,
\* exported as chunk_<i>.mp3
Slice(i, segment_duration_ms, audio_duration_ms) ==
    [index |-> i,
     start_ms |-> SliceStart(i, segment_duration_ms),
     end_ms |-> Min((i + 1) * segment_duration_ms, audio_duration_ms)]

\* create_audio_chunks' loop: num_chunks turns, a turn whose slice would be
\* empty exports nothing
ExportedSlices(audio_duration_ms, segment_duration_ms) ==
    LET num_chunks_ == ceil(audio_duration_ms, segment_duration_ms)
        turns == [t \in 1..num_chunks_ |->
                     Slice(t - 1, segment_duration_ms, audio_duration_ms)]
        NotEmpty(c) == ~(c.start_ms >= c.end_ms)
    IN  SelectSeq(turns, NotEmpty)

\* create_audio_chunks for an audio of audio_duration_ms with the configured
\* bitrate and size ceiling: no chunks without a positive segment duration
create_audio_chunks(audio_duration_ms, audio_channels, target_bitrate_kbps_str, max_size_bytes) ==
    LET segment_duration_ms ==
            estimate_segment_duration_ms(audio_duration_ms, audio_channels,
                                         target_bitrate_kbps_str,
                                         max_size_bytes)
    IN  IF segment_duration_ms.kind = "None" \/ segment_duration_ms.ms <= 0
        THEN <<>>
        ELSE ExportedSlices(audio_duration_ms, segment_duration_ms.ms)

\* The lengths len(audio) can have
AudioLengths == 0..MaxDurationMs

NoSliceArgs ==
    [called |-> FALSE, audio_duration_ms |-> 0, audio_channels |-> 1,
     target_bitrate_kbps_str |-> <<>>, max_size_bytes |-> 0]

\* create_audio_chunks is called on a readable audio file
Chunk ==
    \E d \in AudioLengths, channels \in 1..2, bitrate \in Bitrates,
       m \in Sizes :
        /\ slice_args' = [called |-> TRUE, audio_duration_ms |-> d,
                          audio_channels |-> channels,
                          target_bitrate_kbps_str |-> bitrate,
                          max_size_bytes |-> m]
        /\ chunk_slices' = create_audio_chunks(d, channels, bitrate, m)
        /\ UNCHANGED <<transVars, planVars, convVars, sideVars, coordVars>>

\* ------------------------------------------------------------- Notion blocks
\* str.endswith(suffix)
endswith(s, suffix) ==
    Len(s) >= Len(suffix)
        /\ SubSeq(s, Len(s) - Len(suffix) + 1, Len(s)) = suffix

\* s[a:-b] for a, b >= 1
Between(s, a, b) == SubSeq(s, a + 1, Len(s) - b)

\* s[a:]
From(s, a) == SubSeq(s, a + 1, Len(s))

\* sep.join(parts)
RECURSIVE JoinWith(_, _)
JoinWith(parts, sep) ==
    IF parts = <<>> THEN <<>>
    ELSE IF Len(parts) = 1 THEN parts[1]
    ELSE parts[1] \o sep \o JoinWith(Tail(parts), sep)

\* [f(x) for x in list if x], for the texts of a list
NonEmpty(list) == LET Filled(x) == x # <<>> IN SelectSeq(list, Filled)

\* A text run of a block: its content and its annotations
Run(content, bold, italic) ==
    [content |-> content, bold |-> bold, italic |-> italic]

Plain(content) == Run(content, FALSE, FALSE)

\* The alternatives of the two patterns of parse_rich_text, in their order:
\* (\*\*.*?\*\*|__.*?__) and (\*.*?\*|_.*?_)
BOLD == << <<"*", "*">>, <<"_", "_">> >>
ITALIC == << <<"*">>, <<"_">> >>

\* Where a match of d.*?d that starts at position i of text ends, 0 when
\* there is none: the nearest closing d that does not overlap the opening
\* one, with no newline in between
SpanEnd(text, i, d) ==
    LET n == Len(d)
        closers == {j \in (i + n)..(Len(text) - n + 1) :
                       /\ SubSeq(text, j, j + n - 1) = d
                       /\ \A k \in (i + n)..(j - 1) : text[k] # "\n"}
    IN  IF i + n - 1 <= Len(text) /\ SubSeq(text, i, i + n - 1) = d
           /\ closers # {}
        THEN (CHOOSE j \in closers : \A k \in closers : j <= k) + n - 1
        ELSE 0

\* Where a match of the pattern that starts at position i ends, 0 when there
\* is none: the first alternative that matches wins
MatchEnd(pattern, text, i) ==
    IF SpanEnd(text, i, pattern[1]) # 0
    THEN SpanEnd(text, i, pattern[1])
    ELSE SpanEnd(text, i, pattern[2])

\* re.split(pattern, text[pos:]) for a pattern that is one group: the text
\* before the leftmost match, the match, and so on, the rest last
RECURSIVE SplitFrom(_, _, _)
SplitFrom(pattern, text, pos) ==
    LET starts == {i \in pos..Len(text) : MatchEnd(pattern, text, i) # 0}
    IN  IF starts = {}
        THEN <<SubSeq(text, pos, Len(text))>>
        ELSE LET i == CHOOSE j \in starts : \A k \in starts : j <= k
                 e == MatchEnd(pattern, text, i)
             IN  <<SubSeq(text, pos, i - 1), SubSeq(text, i, e)>>
                     \o SplitFrom(pattern, text, e + 1)

re_split(pattern, text) == SplitFrom(pattern, text, 1)

\* parse_rich_text's inner loop body: the run of one piece of a part that is
\* not bold
ItalicRun(italic_part) ==
    IF /\ startswith(italic_part, <<"*">>)
       /\ endswith(italic_part, <<"*">>)
       /\ ~startswith(italic_part, <<"*", "*">>)
    THEN Run(Between(italic_part, 1, 1), FALSE, TRUE)
    ELSE IF /\ startswith(italic_part, <<"_">>)
            /\ endswith(italic_part, <<"_">>)
            /\ ~startswith(italic_part, <<"_", "_">>)
    THEN Run(Between(italic_part, 1, 1), FALSE, TRUE)
    ELSE Plain(italic_part)

\* parse_rich_text's outer loop body: the runs of one part of the text
PartRuns(part) ==
    IF startswith(part, <<"*", "*">>) /\ endswith(part, <<"*", "*">>)
    THEN <<Run(Between(part, 2, 2), TRUE, FALSE)>>
    ELSE IF startswith(part, <<"_", "_">>) /\ endswith(part, <<"_", "_">>)
    THEN <<Run(Between(part, 2, 2), TRUE, FALSE)>>
    ELSE LET italic_parts == NonEmpty(re_split(ITALIC, part))
         IN  [k \in 1..Len(italic_parts) |-> ItalicRun(italic_parts[k])]

RECURSIVE Flatten(_)
Flatten(lists) ==
    IF lists = <<>> THEN <<>> ELSE Head(lists) \o Flatten(Tail(lists))

\* parse_rich_text(text): the runs of a text
parse_rich_text(text) ==
    IF text = <<>>
    THEN <<Plain(<<>>)>>
    ELSE LET parts == NonEmpty(re_split(BOLD, text))
             rich_text == Flatten([k \in 1..Len(parts) |-> PartRuns(parts[k])])
         IN  IF rich_text = <<>> THEN <<Plain(text)>> ELSE rich_text

\* A block of a Notion page
Block(type, rich_text) == [type |-> type, rich_text |-> rich_text]

\* str.lstrip("#")
RECURSIVE lstrip_hashes(_)
lstrip_hashes(s) ==
    IF s # <<>> /\ Head(s) = "#" THEN lstrip_hashes(Tail(s)) ELSE s

\* heading_level = min(len(line) - len(line.lstrip("#")), 3)
heading_level(hashes) == Min(hashes, 3)

HeadingType ==
    (1 :> "heading_1") @@ (2 :> "heading_2") @@ (3 :> "heading_3")

\* The block of a heading line: its text is one run without annotations
HeadingBlock(line) ==
    LET level == heading_level(Len(line) - Len(lstrip_hashes(line)))
    IN  Block(IF level = 1 THEN "heading_1"
              ELSE IF level = 2 THEN "heading_2" ELSE "heading_3",
              <<Plain(strip(lstrip_hashes(line)))>>)

\* line.startswith(("- ", "* ", "+ "))
IsBullet(line) ==
    \/ startswith(line, <<"-", " ">>)
    \/ startswith(line, <<"*", " ">>)
    \/ startswith(line, <<"+", " ">>)

\* A bullet that keeps its marker
marked_text(line) == strip(line)

\* bullet_text = lines[i].strip()[2:].strip()
bullet_text(line) == strip(From(strip(line), 2))

\* The length of the match of ^\d+\. at the start of the line, 0 without one
NumberMark(line) ==
    LET digits == {n \in 1..Len(line) :
                      \A k \in 1..n : line[k] \in DOMAIN DigitValue}
        n == Cardinality(digits)
    IN  IF n >= 1 /\ Len(line) > n /\ line[n + 1] = "." THEN n + 1 ELSE 0

\* re.match(r"^\d+\.", line)
IsNumbered(line) == NumberMark(line) # 0

\* re.sub(r"^\d+\.\s*", "", line)
NumberedText(line) == lstrip(From(line, NumberMark(line)))

\* The backquote character, which a string of this module cannot hold
Backquote == "backquote"

\* line.startswith of three backquotes
IsFence(line) == startswith(line, <<Backquote, Backquote, Backquote>>)

IsQuote(line) == startswith(line, <<">">>)

\* is_special_line(line)
is_special_line(line) ==
    LET stripped == strip(line)
    IN  \/ startswith(stripped, <<"#">>)
        \/ IsBullet(stripped)
        \/ IsNumbered(stripped)
        \/ IsFence(stripped)
        \/ IsQuote(stripped)

\* The kinds of line that are collected into a run of lines
InRun(kind, line) ==
    IF kind = "bullet" THEN IsBullet(strip(line))
    ELSE IF kind = "numbered" THEN IsNumbered(strip(line))
    ELSE IF kind = "quote" THEN IsQuote(strip(line))
    ELSE IF kind = "code" THEN ~IsFence(strip(line))
    ELSE strip(line) # <<>> /\ ~is_special_line(line)

\* The inner while loops: the first position from i on whose line does not
\* go on the run, Len(lines) + 1 when every line does
RunEnd(kind, lines, i) ==
    LET stops == {j \in i..Len(lines) : ~InRun(kind, lines[j])}
    IN  IF stops = {} THEN Len(lines) + 1
        ELSE CHOOSE j \in stops : \A k \in stops : j <= k

\* A paragraph that is never split
NeverTooLong(text) == FALSE

\* len(paragraph_text) > config.NOTION_MAX_CHUNK_SIZE
TooLong(text) == Len(text) > NOTION_MAX_CHUNK_SIZE

\* [text[j : j + size] for j in range(0, len(text), size)]
Chunks(text, size) ==
    [c \in 1..ceil(Len(text), size) |->
        SubSeq(text, (c - 1) * size + 1, Min(c * size, Len(text)))]

\* The paragraph blocks of a paragraph text
ParagraphBlocks(paragraph_text) ==
    IF TooLong(paragraph_text)
    THEN LET chunks == Chunks(paragraph_text, NOTION_MAX_CHUNK_SIZE)
         IN  [c \in 1..Len(chunks) |->
                 Block("paragraph", parse_rich_text(chunks[c]))]
    ELSE <<Block("paragraph", parse_rich_text(paragraph_text))>>

\* The outer while loop of parse_markdown_to_notion_blocks from position i:
\* the blocks of the construct that starts at line i, then those of the rest
RECURSIVE BlocksFrom(_, _)
BlocksFrom(lines, i) ==
    IF i > Len(lines) THEN <<>>
    ELSE LET line == strip(lines[i])
         IN  IF line = <<>>
             THEN BlocksFrom(lines, i + 1)
             ELSE IF startswith(line, <<"#">>)
             THEN <<HeadingBlock(line)>> \o BlocksFrom(lines, i + 1)
             ELSE IF IsBullet(line)
             THEN LET j == RunEnd("bullet", lines, i)
                  IN  [k \in 1..(j - i) |->
                          Block("bulleted_list_item",
                                parse_rich_text(bullet_text(lines[i + k - 1])))]
                          \o BlocksFrom(lines, j)
             ELSE IF IsNumbered(line)
             THEN LET j == RunEnd("numbered", lines, i)
                  IN  [k \in 1..(j - i) |->
                          Block("numbered_list_item",
                                parse_rich_text(
                                    NumberedText(strip(lines[i + k - 1]))))]
                          \o BlocksFrom(lines, j)
             ELSE IF IsFence(line)
             THEN LET j == RunEnd("code", lines, i + 1)
                      code_content == SubSeq(lines, i + 1, j - 1)
                  IN  <<Block("code",
                              <<Plain(JoinWith(code_content, <<"\n">>))>>)>>
                          \o BlocksFrom(lines, j + 1)
             ELSE IF IsQuote(line)
             THEN LET j == RunEnd("quote", lines, i)
                      quote_content ==
                          NonEmpty([k \in 1..(j - i) |->
                                       strip(From(strip(lines[i + k - 1]), 1))])
                  IN  (IF quote_content # <<>>
                       THEN <<Block("quote",
                                    <<Plain(JoinWith(quote_content, <<" ">>))>>)>>
                       ELSE <<>>)
                          \o BlocksFrom(lines, j)
             ELSE LET j == RunEnd("paragraph", lines, i + 1)
                      paragraph_lines ==
                          [k \in 1..(j - i) |-> strip(lines[i + k - 1])]
                  IN  ParagraphBlocks(JoinWith(paragraph_lines, <<" ">>))
                          \o BlocksFrom(lines, j)

\* parse_markdown_to_notion_blocks(content), for lines = content.split("\n")
parse_markdown_to_notion_blocks(lines) == BlocksFrom(lines, 1)

\* n times the character c
Rep(c, n) == [k \in 1..n |-> c]

\* Lines of a summary: blank ones, headings of levels 1, 2 and 4, one of
\* them longer than a block, bullets, a numbered item, a quote, a fence, and
\* paragraph lines of up to three blocks, one of them with an italic span
DocLines ==
    { <<>>, <<" ">>,
      <<"#", " ", "a">>, <<"#", "#", "a", " ">>, <<"#", "#", "#", "#", " ", "a">>,
      <<"#", " ">> \o Rep("h", NOTION_MAX_CHUNK_SIZE + 1),
      <<"-", " ", "a">>, <<" ", "*", " ", "*", "b", "*">>,
      <<"1", "2", ".", " ", "x">>,
      <<">", " ", "q">>,
      <<Backquote, Backquote, Backquote>>,
      <<"p">>,
      Rep("a", 2 * NOTION_MAX_CHUNK_SIZE - 2),
      <<"*", "a", "*">> \o Rep("b", 2 * NOTION_MAX_CHUNK_SIZE - 3),
      Rep("c", 3 * NOTION_MAX_CHUNK_SIZE) }

\* The contents add_to_notion may be given, as lines
Docs == ListsUpTo(DocLines, MaxLines)

\* The characters of the texts given to parse_rich_text
TextChars == {"a", "*", "_"}

Texts == {<<>>} \cup ListsUpTo(TextChars, MaxText)

ConverterIdle ==
    /\ cpc = "idle"
    /\ content_lines = <<>>
    /\ blocks = <<>>
    /\ text_in = <<>>
    /\ rich_text_out = <<>>

\* parse_markdown_to_notion_blocks is called on a content
Convert ==
    /\ cpc = "idle"
    /\ \E lines \in Docs :
          /\ cpc' = "blocks"
          /\ content_lines' = lines
          /\ blocks' = parse_markdown_to_notion_blocks(lines)
    /\ UNCHANGED <<text_in, rich_text_out, transVars, planVars, sliceVars, sideVars,
                   coordVars>>

\* parse_rich_text is called on a text
RichText ==
    /\ cpc = "idle"
    /\ \E text \in Texts :
          /\ cpc' = "rich_text"
          /\ text_in' = text
          /\ rich_text_out' = parse_rich_text(text)
    /\ UNCHANGED <<content_lines, blocks, transVars, planVars, sliceVars, sideVars,
                   coordVars>>

\* The caller takes the blocks or the runs
ConverterReturns ==
    /\ cpc # "idle"
    /\ cpc' = "idle"
    /\ content_lines' = <<>>
    /\ blocks' = <<>>
    /\ text_in' = <<>>
    /\ rich_text_out' = <<>>
    /\ UNCHANGED <<transVars, planVars, sliceVars, sideVars, coordVars>>

\* ------------------------------------------------------------- scanning loop
\* An index that is not backed up after a run of lines
NoBackUp(i) == i

\* "i -= 1  # Back up one since we'll increment at the end of the loop"
BackUp(i) == i - 1

\* The lines a turn of the outer while loop at line i takes: a blank line
\* or a heading alone; a bullet, numbered or quote line with the lines of
\* its kind that follow; a fence with the lines up to the closing fence and
\* that fence (all the rest when there is none); a paragraph line with the
\* ordinary lines that follow
Collected(lines, i) ==
    LET line == strip(lines[i])
    IN  IF line = <<>> \/ startswith(line, <<"#">>) THEN {i}
        ELSE IF IsBullet(line) THEN i..(RunEnd("bullet", lines, i) - 1)
        ELSE IF IsNumbered(line) THEN i..(RunEnd("numbered", lines, i) - 1)
        ELSE IF IsFence(line)
        THEN i..Min(RunEnd("code", lines, i + 1), Len(lines))
        ELSE IF IsQuote(line) THEN i..(RunEnd("quote", lines, i) - 1)
        ELSE i..(RunEnd("paragraph", lines, i + 1) - 1)

\* The index i after a turn of the outer while loop that began at line i:
\* where the inner loop stopped, backed up where the branch does so, and
\* incremented at the end of the turn
Advance(lines, i) ==
    LET line == strip(lines[i])
    IN  IF line = <<>> THEN i + 1
        ELSE IF startswith(line, <<"#">>) THEN i + 1
        ELSE IF IsBullet(line)
        THEN BackUp(RunEnd("bullet", lines, i)) + 1
        ELSE IF IsNumbered(line)
        THEN BackUp(RunEnd("numbered", lines, i)) + 1
        ELSE IF IsFence(line) THEN RunEnd("code", lines, i + 1) + 1
        ELSE IF IsQuote(line) THEN BackUp(RunEnd("quote", lines, i)) + 1
        ELSE BackUp(RunEnd("paragraph", lines, i + 1)) + 1

\* One line of each kind the loop tells apart
ScanLineKinds ==
    { <<>>, <<" ">>, <<"#", " ", "a">>, <<"-", " ", "a">>,
      <<"1", "2", ".", " ", "x">>, <<">", " ", "q">>,
      <<Backquote, Backquote, Backquote>>, <<"p">> }

ScanDocs == ListsUpTo(ScanLineKinds, MaxLines)

ScanIdle ==
    /\ spc = "idle"
    /\ scan_lines = <<>>
    /\ scan_i = 1
    /\ consumed = <<>>

\* parse_markdown_to_notion_blocks is called: "i = 0"
CallScan ==
    /\ spc = "idle"
    /\ \E lines \in ScanDocs :
          /\ scan_lines' = lines
          /\ consumed' = [k \in 1..Len(lines) |-> 0]
    /\ spc' = "scanning"
    /\ scan_i' = 1
    /\ UNCHANGED <<transVars, planVars, sliceVars, convVars, cleanVars, meetVars, watchVars,
                   coordVars>>

\* One turn of "while i < len(lines)"
ScanTurn ==
    /\ spc = "scanning"
    /\ scan_i <= Len(scan_lines)
    /\ scan_i' = Advance(scan_lines, scan_i)
    /\ consumed' = [k \in 1..Len(scan_lines) |->
                       IF k \in Collected(scan_lines, scan_i)
                       THEN consumed[k] + 1 ELSE consumed[k]]
    /\ UNCHANGED <<spc, scan_lines, transVars, planVars, sliceVars, convVars,
                   cleanVars, meetVars, watchVars, coordVars>>

\* The loop is left and the blocks are returned
ScanReturns ==
    /\ spc = "scanning"
    /\ ~(scan_i <= Len(scan_lines))
    /\ spc' = "idle"
    /\ scan_lines' = <<>>
    /\ scan_i' = 1
    /\ consumed' = <<>>
    /\ UNCHANGED <<transVars, planVars, sliceVars, convVars, cleanVars, meetVars, watchVars,
                   coordVars>>

\* ------------------------------------------------------------- response cleaning
\* The lower-case letter of each upper-case letter
LowerOf ==
    ("A" :> "a") @@ ("B" :> "b") @@ ("C" :> "c") @@ ("D" :> "d") @@ ("E" :>
    "e") @@ ("F" :> "f") @@ ("G" :> "g") @@ ("H" :> "h") @@ ("I" :> "i") @@
    ("J" :> "j") @@ ("K" :> "k") @@ ("L" :> "l") @@ ("M" :> "m") @@ ("N" :>
    "n") @@ ("O" :> "o") @@ ("P" :> "p") @@ ("Q" :> "q") @@ ("R" :> "r") @@
    ("S" :> "s") @@ ("T" :> "t") @@ ("U" :> "u") @@ ("V" :> "v") @@ ("W" :>
    "w") @@ ("X" :> "x") @@ ("Y" :> "y") @@ ("Z" :> "z")

\* str.lower(), which is how re.IGNORECASE compares letters
lower(s) ==
    [i \in 1..Len(s) |-> IF s[i] \in DOMAIN LowerOf THEN LowerOf[s[i]] ELSE s[i]]

\* The characters \s matches and str.strip() removes
TextSpace == Whitespace \cup {"\n"}

\* str.strip() of a text of several lines
strip_text(s) ==
    LET kept == {i \in 1..Len(s) : s[i] \notin TextSpace}
    IN  IF kept = {} THEN <<>>
        ELSE SubSeq(s, CHOOSE i \in kept : \A j \in kept : i <= j,
                       CHOOSE i \in kept : \A j \in kept : i >= j)

\* The literal t is in s at position q
At(s, q, t) == q + Len(t) - 1 <= Len(s) /\ SubSeq(s, q, q + Len(t) - 1) = t

\* The heads of the last pattern: (?:Here's|Here are) (?:a |the )?
\* (?:clean |structured )?(?:meeting )?(?:summary|minutes?)
SummaryHeads ==
    { h \o <<" ">> \o a \o c \o m \o w :
        h \in {<<"h", "e", "r", "e", "'", "s">>, <<"h", "e", "r", "e", " ", "a", "r", "e">>},
        a \in {<<>>, <<"a", " ">>, <<"t", "h", "e", " ">>},
        c \in {<<>>, <<"c", "l", "e", "a", "n", " ">>,
               <<"s", "t", "r", "u", "c", "t", "u", "r", "e", "d", " ">>},
        m \in {<<>>, <<"m", "e", "e", "t", "i", "n", "g", " ">>},
        w \in {<<"s", "u", "m", "m", "a", "r", "y">>, <<"m", "i", "n", "u", "t", "e">>} }

\* preamble_patterns, each "^(?:prefix[.,]?\s*)?(?:heads).*?(?:tails).*?(?:\n|$)"
\* in lower case: an optional opening word, the ways the sentence may begin,
\* and the words one of which must follow on the same line (none when the
\* pattern asks for nothing more)
preamble_patterns ==
    << [prefix |-> <<"o", "f", " ", "c", "o", "u", "r", "s", "e">>,
        heads |-> { <<"h", "e", "r", "e", " ">> \o v \o <<" ", "t", "h", "e", " ", "m", "e", "e", "t", "i", "n", "g", " ", "m", "i", "n", "u", "t", "e">> :
                      v \in {<<"a", "r", "e">>, <<"i", "s">>} },
        tails |-> {}],
       [prefix |-> <<>>,
        heads |-> { <<"b", "a", "s", "e", "d", " ", "o", "n", " ", "t", "h", "e", " ">> \o v \o <<"t", "r", "a", "n", "s", "c", "r", "i", "p", "t">> :
                      v \in {<<>>, <<"p", "r", "o", "v", "i", "d", "e", "d", " ">>} },
        tails |-> {}],
       [prefix |-> <<>>,
        heads |-> { <<"i", "'", "l", "l", " ">> \o v :
                      v \in {<<"c", "r", "e", "a", "t", "e">>, <<"p", "r", "o", "v", "i", "d", "e">>, <<"g", "e", "n", "e", "r", "a", "t", "e">>} },
        tails |-> {<<"m", "e", "e", "t", "i", "n", "g", " ", "m", "i", "n", "u", "t", "e">>}],
       [prefix |-> <<"c", "e", "r", "t", "a", "i", "n", "l", "y">>,
        heads |-> {<<"h", "e", "r", "e", "'", "s">>, <<"h", "e", "r", "e", " ", "a", "r", "e">>},
        tails |-> {<<"s", "u", "m", "m", "a", "r", "y">>, <<"m", "i", "n", "u", "t", "e">>}],
       [prefix |-> <<"s", "u", "r", "e">>,
        heads |-> {<<"i", "'", "l", "l">>, <<"l", "e", "t", " ", "m", "e">>},
        tails |-> {<<"s", "u", "m", "m", "a", "r", "i", "z", "e">>, <<"c", "r", "e", "a", "t", "e">>}],
       [prefix |-> <<"a", "b", "s", "o", "l", "u", "t", "e", "l", "y">>,
        heads |-> SummaryHeads,
        tails |-> {}] >>

\* Where the sentence of a match that starts at p may begin: at p, or after
\* the opening word, one '.' or ',' and any white space
HeadStarts(pattern, s, p) ==
    {p} \cup
    { q \in (p + 1)..Len(s) :
        /\ pattern.prefix # <<>>
        /\ At(s, p, pattern.prefix)
        /\ LET from == p + Len(pattern.prefix)
               skip == IF from <= Len(s) /\ s[from] \in {".", ","}
                       THEN {from, from + 1} ELSE {from}
           IN  \E f \in skip :
                   f <= q /\ \A k \in f..(q - 1) : s[k] \in TextSpace }

\* The end of the line that holds position q, its newline included
LineEnd(s, q) ==
    LET ends == {k \in q..Len(s) : s[k] = "\n"}
    IN  IF ends = {} THEN Len(s) ELSE CHOOSE k \in ends : \A j \in ends : k <= j

\* re.match of a pattern at the line start p of the lowered text s: the
\* position of the last character matched, 0 when there is no match
PreambleEnd(pattern, s, p) ==
    LET found ==
          { q \in HeadStarts(pattern, s, p) :
              \E h \in pattern.heads :
                  /\ At(s, q, h)
                  /\ pattern.tails # {} =>
                        \E t \in pattern.tails, r \in (q + Len(h))..Len(s) :
                            /\ At(s, r, t)
                            /\ \A k \in (q + Len(h))..(r - 1) : s[k] # "\n" }
    IN  IF found = {} THEN 0
        ELSE LineEnd(s, CHOOSE q \in found : TRUE)

\* "^" under re.MULTILINE: the start of the text and of every line
LineStart(s, p) == p = 1 \/ s[p - 1] = "\n"

\* re.sub(pattern, "", text, flags=re.IGNORECASE | re.MULTILINE) from
\* position p on: every match is taken out, the rest is kept
RECURSIVE re_sub(_, _, _)
re_sub(pattern, text, p) ==
    IF p > Len(text) THEN <<>>
    ELSE LET e == IF LineStart(text, p)
                  THEN PreambleEnd(pattern, lower(text), p) ELSE 0
         IN  IF e > 0 THEN re_sub(pattern, text, e + 1)
             ELSE <<text[p]>> \o re_sub(pattern, text, p + 1)

\* The loop over preamble_patterns, from the n-th pattern on
RECURSIVE RemovePreambles(_, _)
RemovePreambles(cleaned, n) ==
    IF n > Len(preamble_patterns) THEN cleaned
    ELSE RemovePreambles(re_sub(preamble_patterns[n], cleaned, 1), n + 1)

\* summarization.clean_ai_response(response_text)
clean_ai_response(text) ==
    IF text = <<>> THEN text
    ELSE strip_text(RemovePreambles(strip_text(text), 1))

\* Lines of a response: content, a blank line, content after a blank, and
\* chatty lines, one of them in capitals, one an opening word alone
ResponseLines ==
    { <<"a">>, <<>>, <<" ", "b">>,
      <<"L", "e", "t", " ", "m", "e", " ", "c", "r", "e", "a", "t", "e">>,
      <<"H", "E", "R", "E", "'", "S", " ", "A", " ", "S", "U", "M", "M", "A", "R", "Y">>,
      <<"S", "u", "r", "e", ",">>,
      <<"B", "a", "s", "e", "d", " ", "o", "n", " ", "t", "h", "e", " ", "t", "r", "a", "n", "s", "c", "r", "i", "p", "t">>,
      <<"I", "'", "l", "l", " ", "c", "r", "e", "a", "t", "e">> }

\* "\n".join(lines)
Lines(lines) == JoinWith(lines, <<"\n">>)

\* The responses of a summarization service, never empty
ResponseTexts ==
    {Lines(lines) : lines \in ListsUpTo(ResponseLines, MaxResponse)} \ {<<>>}

CleanerIdle ==
    /\ kpc = "idle"
    /\ response_in = <<>>
    /\ cleaned_out = <<>>

\* clean_ai_response is called on the text of a response
Clean ==
    /\ kpc = "idle"
    /\ \E text \in ResponseTexts :
          /\ response_in' = text
          /\ cleaned_out' = clean_ai_response(text)
    /\ kpc' = "cleaned"
    /\ UNCHANGED <<transVars, planVars, sliceVars, convVars, scanVars, meetVars, watchVars,
                   coordVars>>

\* The caller takes the cleaned text
CleanReturns ==
    /\ kpc = "cleaned"
    /\ kpc' = "idle"
    /\ response_in' = <<>>
    /\ cleaned_out' = <<>>
    /\ UNCHANGED <<transVars, planVars, sliceVars, convVars, scanVars, meetVars, watchVars,
                   coordVars>>

\* ------------------------------------------------------------- meeting recordings
\* A chunk that is as long as the others whatever is left of the file
FullChunk(bytes_per_chunk, remaining) == bytes_per_chunk

\* split_audio_file's "min(bytes_per_chunk, file_size - (i * bytes_per_chunk))"
ChunkSize(bytes_per_chunk, remaining) == Min(bytes_per_chunk, remaining)

\* split_audio_file's num_chunks and bytes_per_chunk for a file that is
\* larger than the ceiling
SplitPlan(file_size, max_chunk_size) ==
    LET num_chunks_ == ceil(file_size, max_chunk_size)
        bytes_per_chunk == ceil(file_size, num_chunks_)
    IN  IF bytes_per_chunk > max_chunk_size
        THEN [num_chunks |-> num_chunks_ + 1,
              bytes_per_chunk |-> ceil(file_size, num_chunks_ + 1)]
        ELSE [num_chunks |-> num_chunks_, bytes_per_chunk |-> bytes_per_chunk]

\* The file itself, as split_audio_file returns it when it is not split
SourceFile(file_size) == [dir |-> "source", index |-> 0, size |-> file_size]

\* split_audio_file's loop: chunk_<i+1> of the mkdtemp directory holds the
\* next current_chunk_size bytes read from the file; the loop ends at the
\* first size that is not positive
SplitChunks(file_size, max_chunk_size) ==
    LET plan == SplitPlan(file_size, max_chunk_size)
        turns == [t \in 1..plan.num_chunks |->
                    [dir |-> "temp", index |-> t,
                     size |-> ChunkSize(plan.bytes_per_chunk,
                                        file_size - (t - 1) * plan.bytes_per_chunk)]]
        breaks == {t \in 1..plan.num_chunks : turns[t].size <= 0}
    IN  IF breaks = {} THEN turns
        ELSE SubSeq(turns, 1, (CHOOSE t \in breaks : \A u \in breaks : t <= u) - 1)

\* split_audio_file(file_path, max_chunk_size), when nothing raises: the
\* list of files and whether a temporary directory was made
split_audio_file(file_size, max_chunk_size) ==
    IF file_size <= max_chunk_size
    THEN [chunk_files |-> <<SourceFile(file_size)>>, created |-> FALSE]
    ELSE [chunk_files |-> SplitChunks(file_size, max_chunk_size),
          created |-> TRUE]

\* cleanup_chunks(chunk_files, created_temp_dir): the directories that are
\* left of existing; shutil.rmtree takes the directory of the first file
cleanup_chunks(files, created_temp_dir, existing) ==
    IF created_temp_dir /\ files # <<>>
    THEN existing \ {files[1].dir}
    ELSE existing

NoSplitArgs == [file_size |-> 0, max_chunk_size |-> 1]

MeetingIdle ==
    /\ mpc = "idle"
    /\ split_args = NoSplitArgs
    /\ temp_files = <<>>
    /\ meeting_chunks = <<>>
    /\ chunks_created = FALSE

\* process_new_file(file_path) is called by the watcher on a file of
\* file_size bytes, with a ceiling of max_chunk_size bytes for a chunk
CallProcess ==
    /\ mpc = "idle"
    /\ \E file_size \in 0..MaxFileBytes, max_chunk_size \in 1..MaxSizeBytes :
          split_args' = [file_size |-> file_size,
                         max_chunk_size |-> max_chunk_size]
    /\ mpc' = "split"
    /\ meeting_chunks' = <<>>
    /\ chunks_created' = FALSE
    /\ UNCHANGED <<dirs, temp_files, transVars, planVars, sliceVars, convVars,
                   scanVars, cleanVars, watchVars, coordVars>>

\* process_new_file's call of split_audio_file.  Either it returns and its
\* results are assigned, or writing a chunk raises after the directory was
\* made and the chunks before it were written: the assignment does not
\* happen, the except branch returns and the finally block finds
\* chunks_created False.
Split ==
    /\ mpc = "split"
    /\ LET split == split_audio_file(split_args.file_size,
                                     split_args.max_chunk_size)
       IN  \E raised_at \in 0..Len(split.chunk_files) :
             IF raised_at = 0
             THEN /\ meeting_chunks' = split.chunk_files
                  /\ chunks_created' = split.created
                  /\ dirs' = IF split.created THEN dirs \cup {"temp"} ELSE dirs
                  /\ temp_files' = IF split.created
                                   THEN [t \in 1..Len(split.chunk_files) |->
                                            split.chunk_files[t].size]
                                   ELSE <<>>
                  /\ mpc' = "transcribe"
             ELSE /\ split.created
                  /\ dirs' = dirs \cup {"temp"}
                  /\ temp_files' = [t \in 1..(raised_at - 1) |->
                                       split.chunk_files[t].size]
                  /\ mpc' = "returned"
                  /\ UNCHANGED <<meeting_chunks, chunks_created>>
    /\ UNCHANGED <<split_args, transVars, planVars, sliceVars, convVars,
                   scanVars, cleanVars, watchVars, coordVars>>

\* process_new_file's loop over the chunks: all of them are transcribed, or
\* transcription_service.transcribe raises and the except branch returns;
\* either way the finally block cleans up when chunks_created is True
TranscribeMeeting ==
    /\ mpc = "transcribe"
    /\ \E raised \in BOOLEAN :
          mpc' = IF raised THEN "returned" ELSE "transcribed"
    /\ dirs' = IF chunks_created
               THEN cleanup_chunks(meeting_chunks, chunks_created, dirs)
               ELSE dirs
    /\ temp_files' = IF "temp" \in dirs' THEN temp_files ELSE <<>>
    /\ UNCHANGED <<split_args, meeting_chunks, chunks_created, transVars,
                   planVars, sliceVars, convVars, scanVars, cleanVars,
                   watchVars, coordVars>>

\* process_new_file has returned; the directory of the next call's mkdtemp
\* is a new one
ProcessReturns ==
    /\ mpc \in {"returned", "transcribed"}
    /\ mpc' = "idle"
    /\ split_args' = NoSplitArgs
    /\ temp_files' = <<>>
    /\ meeting_chunks' = <<>>
    /\ chunks_created' = FALSE
    /\ dirs' = dirs \ {"temp"}
    /\ UNCHANGED <<transVars, planVars, sliceVars, convVars, scanVars,
                   cleanVars, watchVars, coordVars>>

\* ------------------------------------------------------------- folder watcher
\* Path.suffix: the name from its last dot on, nothing when there is no dot
\* after the first character
suffix(path) ==
    LET dots == {k \in 2..Len(path) : path[k] = "."}
    IN  IF dots = {} THEN <<>>
        ELSE SubSeq(path, CHOOSE k \in dots : \A j \in dots : k >= j, Len(path))

\* file_path.suffix.lower() in ('.mp3', '.wav', '.m4a', '.flac')
IsAudio(path) ==
    lower(suffix(path)) \in { <<".", "m", "p", "3">>, <<".", "w", "a", "v">>,
                              <<".", "m", "4", "a">>,
                              <<".", "f", "l", "a", "c">> }

\* The files that may come into the watched folder
WatchPaths ==
    { <<"a", ".", "M", "P", "3">>, <<"b", ".", "w", "a", "v">>,
      <<"n", ".", "t", "x", "t">> }

\* The thread of the observer and the thread that calls start()
Threads == {"observer", "main"}

WatcherInit ==
    /\ watch_dir = {}
    /\ observing = FALSE
    /\ events = <<>>
    /\ to_scan = <<>>
    /\ main_pc = "stopped"
    /\ wpc = [t \in Threads |-> "idle"]
    /\ wpath = [t \in Threads |-> <<>>]
    /\ processed_files = {}
    /\ callbacks = [f \in WatchPaths |-> 0]

\* A file is copied into the folder; the observer, once it runs, is told
CreateFile ==
    /\ \E f \in WatchPaths \ watch_dir :
          /\ watch_dir' = watch_dir \cup {f}
          /\ events' = IF observing THEN Append(events, f) ELSE events
    /\ UNCHANGED <<observing, to_scan, main_pc, wpc, wpath, processed_files,
                   callbacks, transVars, planVars, sliceVars, convVars,
                   scanVars, cleanVars, meetVars, coordVars>>

\* FileWatcherService.start up to its call of process_existing_files: the
\* handler is scheduled and the observer thread is started
StartWatch ==
    /\ main_pc = "stopped"
    /\ observing' = TRUE
    /\ main_pc' = "glob"
    /\ UNCHANGED <<watch_dir, events, to_scan, wpc, wpath, processed_files,
                   callbacks, transVars, planVars, sliceVars, convVars,
                   scanVars, cleanVars, meetVars, coordVars>>

\* process_existing_files' directory.glob('*'): the files of the folder,
\* in some order
Glob ==
    /\ main_pc = "glob"
    /\ \E listing \in [1..Cardinality(watch_dir) -> watch_dir] :
          /\ NoDuplicates(listing)
          /\ to_scan' = listing
    /\ main_pc' = "scan"
    /\ UNCHANGED <<watch_dir, observing, events, wpc, wpath, processed_files,
                   callbacks, transVars, planVars, sliceVars, convVars,
                   scanVars, cleanVars, meetVars, coordVars>>

\* One turn of process_existing_files' loop, up to its call of on_created:
\* the next file is handed over when it is an audio file that is not in
\* processed_files; after the last file start() returns
ExistingFile ==
    /\ main_pc = "scan"
    /\ wpc["main"] = "idle"
    /\ IF to_scan = <<>>
       THEN /\ main_pc' = "started"
            /\ UNCHANGED <<to_scan, wpc, wpath>>
       ELSE /\ to_scan' = Tail(to_scan)
            /\ main_pc' = main_pc
            /\ IF IsAudio(Head(to_scan)) /\ Head(to_scan) \notin processed_files
               THEN /\ wpc' = [wpc EXCEPT !["main"] = "entered"]
                    /\ wpath' = [wpath EXCEPT !["main"] = Head(to_scan)]
               ELSE UNCHANGED <<wpc, wpath>>
    /\ UNCHANGED <<watch_dir, observing, events, processed_files, callbacks,
                   transVars, planVars, sliceVars, convVars, scanVars,
                   cleanVars, meetVars, coordVars>>

\* The observer thread reports the next created file to on_created
FileCreated ==
    /\ observing
    /\ wpc["observer"] = "idle"
    /\ events # <<>>
    /\ events' = Tail(events)
    /\ wpc' = [wpc EXCEPT !["observer"] = "entered"]
    /\ wpath' = [wpath EXCEPT !["observer"] = Head(events)]
    /\ UNCHANGED <<watch_dir, observing, to_scan, main_pc, processed_files,
                   callbacks, transVars, planVars, sliceVars, convVars,
                   scanVars, cleanVars, meetVars, coordVars>>

\* on_created's test, on thread t: an audio file that is not in
\* processed_files goes on
TestProcessed(t) ==
    /\ wpc[t] = "entered"
    /\ wpc' = [wpc EXCEPT ![t] = IF IsAudio(wpath[t])
                                     /\ wpath[t] \notin processed_files
                                  THEN "passed" ELSE "idle"]
    /\ UNCHANGED <<watch_dir, observing, events, to_scan, main_pc, wpath,
                   processed_files, callbacks, transVars, planVars, sliceVars,
                   convVars, scanVars, cleanVars, meetVars, coordVars>>

\* on_created's "self.processed_files.add(str(file_path))", on thread t
AddProcessed(t) ==
    /\ wpc[t] = "passed"
    /\ processed_files' = processed_files \cup {wpath[t]}
    /\ wpc' = [wpc EXCEPT ![t] = "added"]
    /\ UNCHANGED <<watch_dir, observing, events, to_scan, main_pc, wpath,
                   callbacks, transVars, planVars, sliceVars, convVars,
                   scanVars, cleanVars, meetVars, coordVars>>

\* on_created's "self.callback(file_path)" after the sleep, on thread t
Callback(t) ==
    /\ wpc[t] = "added"
    /\ callbacks' = [callbacks EXCEPT ![wpath[t]] = @ + 1]
    /\ wpc' = [wpc EXCEPT ![t] = "idle"]
    /\ UNCHANGED <<watch_dir, observing, events, to_scan, main_pc, wpath,
                   processed_files, transVars, planVars, sliceVars, convVars,
                   scanVars, cleanVars, meetVars, coordVars>>

\* ------------------------------------------------------------- coordinator
A_FILE == <<"a", ".", "m">>        \* a local audio file that exists
X_FILE == <<"x", ".", "m">>        \* a local path with no file behind it
A_URL == <<"h", "t", "t", "p", ":", "/", "/", "h", "/", "u", ".", "m">>

\* The items the operator gives the coordinator
CoordItems == {A_FILE, X_FILE, A_URL}

ItemDefaults ==
    /\ item = NoPath
    /\ file_path = NoPath
    /\ transcript = "None"
    /\ summary = "None"
    /\ backup_path = "unset"
    /\ result = "unset"
    /\ success = FALSE
    /\ confirm = FALSE
    /\ ledger0 = <<>>
    /\ queue0 = <<>>
    /\ sumCalls = <<>>
    /\ backup_content = "unset"
    /\ notion_content = "unset"

Init ==
    /\ queueExists \in BOOLEAN
    /\ queueFile = <<>>
    /\ saved = [called |-> FALSE, items |-> <<>>]
    /\ lastCall = [op |-> "none", arg |-> <<>>, pre |-> <<>>]
    /\ prevCall = [op |-> "none", arg |-> <<>>, pre |-> <<>>]
    /\ fsFiles = {A_FILE}
    /\ ledger = <<>>
    /\ handler = "idle"
    /\ work = <<>>
    /\ idx = 0
    /\ pc = "idle"
    /\ runs = 0
    /\ snapshot = <<>>
    /\ attempts = <<>>
    /\ ItemDefaults
    /\ TranscribeIdle
    /\ temp_chunks = NoDir
    /\ plan_args = [called |-> FALSE, audio_duration_ms |-> 0,
                    audio_channels |-> 1, target_bitrate_kbps_str |-> <<>>,
                    max_size_bytes |-> 0]
    /\ plan_result = NoDuration
    /\ ScanIdle
    /\ CleanerIdle
    /\ MeetingIdle
    /\ WatcherInit
    /\ dirs = {"source"}
    /\ slice_args = NoSliceArgs
    /\ chunk_slices = <<>>
    /\ ConverterIdle

\* process_queue_item(it) is called: its first step is resolve_file_path.
\* q is load_queue() at the call.
BeginItem(it, q) ==
    /\ item' = it
    /\ file_path' = NoPath
    /\ transcript' = "None"
    /\ summary' = "None"
    /\ backup_path' = "unset"
    /\ result' = "unset"
    /\ success' = FALSE
    /\ confirm' = FALSE
    /\ ledger0' = ledger
    /\ queue0' = q
    /\ sumCalls' = <<>>
    /\ backup_content' = "unset"
    /\ notion_content' = "unset"
    /\ attempts' = IF pc = "idle" THEN <<it>> ELSE Append(attempts, it)
    /\ pc' = "resolve"
    /\ runs' = runs + 1

\* handle_add_item: "add <item>" in interactive mode
handle_add_item ==
    \E it \in CoordItems :
        /\ handler = "idle"
        /\ Len(AppendNew(Queue, <<it>>)) <= MaxQueue
        /\ add_to_queue(<<it>>)
        /\ UNCHANGED <<funcVars, histVars, diskVars, itemVars, runVars>>

\* handle_clear_queue, and main --clear-queue: save_queue([])
handle_clear_queue ==
    /\ handler = "idle"
    /\ queueExists' = TRUE
    /\ queueFile' = save_queue(<<>>)
    /\ saved' = [called |-> TRUE, items |-> <<>>]
    /\ UNCHANGED <<funcVars, histVars, diskVars, itemVars, runVars>>

\* handle_process_next, up to its call of process_queue_item
handle_process_next ==
    /\ handler = "idle"
    /\ runs < MaxRuns
    /\ Queue # <<>>
    /\ handler' = "process_next"
    /\ work' = <<Queue[1]>>
    /\ snapshot' = Queue
    /\ idx' = 1
    /\ BeginItem(Queue[1], Queue)
    /\ UNCHANGED <<funcVars, queueVars, histVars, diskVars>>

\* handle_process_all (also main --process-queue), up to its first call of
\* process_queue_item
handle_process_all ==
    /\ handler = "idle"
    /\ runs + Len(Queue) <= MaxRuns
    /\ Queue # <<>>
    /\ handler' = "process_all"
    /\ work' = Queue
    /\ snapshot' = Queue
    /\ idx' = 1
    /\ BeginItem(Queue[1], Queue)
    /\ UNCHANGED <<funcVars, queueVars, histVars, diskVars>>

\* handle_direct_path: a path or URL pasted at the prompt is processed at once
handle_direct_path ==
    \E it \in CoordItems :
        /\ handler = "idle"
        /\ runs < MaxRuns
        /\ it \in fsFiles \/ is_url(it) \/ (Len(it) > 2 /\ it[2] = ":")
        /\ handler' = "direct_path"
        /\ work' = <<it>>
        /\ snapshot' = Queue
        /\ idx' = 1
        /\ BeginItem(it, Queue)
        /\ UNCHANGED <<funcVars, queueVars, histVars, diskVars>>

\* main(files): the temp download directory is emptied, the files are added
\* to the queue, and the default path starts processing them
main_files ==
    \E files \in ListsUpTo(CoordItems, MaxBatch) :
        /\ handler = "idle"
        /\ runs + Len(files) <= MaxRuns
        /\ Len(AppendNew(Queue, files)) <= MaxQueue
        /\ fsFiles' = {f \in fsFiles : ~startswith(f, TEMP_DOWNLOAD_DIR \o <<"/">>)}
        /\ add_to_queue(files)
        /\ handler' = "main_files"
        /\ work' = files
        /\ snapshot' = load_queue(TRUE, save_queue(AppendNew(Queue, files)))
        /\ idx' = 1
        /\ BeginItem(files[1],
                     load_queue(TRUE, save_queue(AppendNew(Queue, files))))
        /\ UNCHANGED <<funcVars, histVars, ledger>>

\* process_queue_item: resolve_file_path(item), and the return of False when
\* it gives no path
Resolve ==
    /\ pc = "resolve"
    /\ IF is_url(item)
       THEN \E downloaded \in BOOLEAN, now \in Clock :
              IF downloaded
              THEN /\ file_path' = download_path(item, TEMP_DOWNLOAD_DIR, now)
                   /\ fsFiles' = fsFiles \cup {file_path'}
                   /\ pc' = "transcribe"
              ELSE /\ pc' = "returned"
                   /\ UNCHANGED <<file_path, fsFiles>>
       ELSE IF item \in fsFiles
            THEN /\ file_path' = item
                 /\ pc' = "transcribe"
                 /\ UNCHANGED fsFiles
            ELSE /\ pc' = "returned"
                 /\ UNCHANGED <<file_path, fsFiles>>
    /\ UNCHANGED <<funcVars, queueVars, histVars, ledger, item, transcript,
                   summary,
                   backup_path, result, success, confirm, ledger0, queue0,
                   sumCalls, backup_content, notion_content,
                   handler, work, idx, runs, snapshot, attempts>>

\* process_file, step 1: the file check and transcribe_audio_file, which
\* gives a transcript or nothing (its own steps are those of TranscribeSpec)
Transcribe ==
    /\ pc = "transcribe"
    /\ IF file_path = NoPath \/ file_path \notin fsFiles
       THEN /\ pc' = "cleanup"
            /\ UNCHANGED transcript
       ELSE \E t \in {"None", "transcript"} :
              /\ transcript' = t
              /\ pc' = IF t = "None" THEN "cleanup" ELSE "summarize"
    /\ UNCHANGED <<funcVars, queueVars, histVars, diskVars, item, file_path,
                   summary,
                   backup_path, result, success, confirm, ledger0, queue0,
                   sumCalls, backup_content, notion_content,
                   handler, work, idx, runs, snapshot, attempts>>

\* Python's truth of an optional string: None and "" are false
Truthy(text) == text \notin {"None", ""}

\* What summarize_with_gemini returns: None (no GEMINI_API_KEY, no text, or
\* an exception of the call), the cleaned response when it is empty, or the
\* cleaned response
GeminiResponses == {"None", "", "Gemini summary"}

\* What summarize_with_openai returns, likewise
OpenAIResponses == {"None", "", "OpenAI summary"}

\* A coordinator that asks the next provider whatever the first returned
NeedsNextAlways(response) == TRUE

\* process_file's "if not summary": the next provider is asked
NeedsNext(response) == ~Truthy(response)

\* A coordinator that publishes nothing when both providers failed
NoFallback(text) == "None"

\* process_file's "summary = transcript" when both providers failed
RawFallback(text) == text

\* process_file, step 2: Gemini, then OpenAI, then the raw transcript
Summarize ==
    /\ pc = "summarize"
    /\ \E g \in GeminiResponses :
         LET first == [provider |-> "gemini", response |-> g]
         IN  IF NeedsNext(g)
             THEN \E o \in OpenAIResponses :
                    /\ sumCalls' =
                         <<first, [provider |-> "openai", response |-> o]>>
                    /\ summary' = IF NeedsNext(o)
                                  THEN RawFallback(transcript)
                                  ELSE o
             ELSE /\ sumCalls' = <<first>>
                  /\ summary' = g
    /\ pc' = "backup"
    /\ UNCHANGED <<funcVars, queueVars, histVars, diskVars, item, file_path,
                   transcript,
                   backup_path, result, success, confirm, ledger0, queue0,
                   backup_content, notion_content,
                   handler, work, idx, runs, snapshot, attempts>>

\* process_file, step 3: save_backup_markdown(title, summary, ...) writes the
\* backup and returns its path, or returns None when writing fails
SaveBackup ==
    /\ pc = "backup"
    /\ backup_content' = summary
    /\ \E written \in BOOLEAN :
         IF written
         THEN backup_path' = "path"
         ELSE backup_path' = "None"
    /\ pc' = "publish"
    /\ UNCHANGED <<funcVars, queueVars, histVars, diskVars, item, file_path,
                   transcript, summary, result, success, confirm, ledger0,
                   queue0, sumCalls, notion_content,
                   handler, work, idx, runs, snapshot, attempts>>

\* process_file, step 4: add_to_notion(title, summary) creates the page, or
\* returns None
AddToNotion ==
    /\ pc = "publish"
    /\ notion_content' = summary
    /\ IF title_of(file_path) = <<>>
       THEN result' = "None"
       ELSE \E created \in BOOLEAN :
              result' = IF created THEN "page" ELSE "None"
    /\ pc' = "record"
    /\ UNCHANGED <<funcVars, queueVars, histVars, diskVars, item, file_path,
                   transcript, summary, backup_path, success, confirm, ledger0,
                   queue0, sumCalls, backup_content,
                   handler, work, idx, runs, snapshot, attempts>>

\* A coordinator that counts the item as processed only when the page exists
ProcessedIfPublished(backup, page) == backup = "path" /\ page = "page"

\* process_file's "if backup_path": the item counts as processed when the
\* backup was written, whatever add_to_notion returned
Processed(backup, page) == backup = "path"

\* process_file, the end: with a backup the file is marked as processed and
\* process_file returns True; without one it returns False
Record ==
    /\ pc = "record"
    /\ IF Processed(backup_path, result)
       THEN /\ ledger' = mark_as_processed(ledger, file_path)
            /\ success' = TRUE
       ELSE /\ success' = FALSE
            /\ UNCHANGED ledger
    /\ pc' = "cleanup"
    /\ UNCHANGED <<funcVars, queueVars, histVars, fsFiles, item, file_path,
                   transcript, summary, backup_path, result, confirm, ledger0,
                   queue0, sumCalls, backup_content, notion_content,
                   handler, work, idx, runs, snapshot, attempts>>

\* process_queue_item after process_file: the downloaded file of a URL item
\* is removed; if os.remove raises, process_queue_item returns False
Cleanup ==
    /\ pc = "cleanup"
    /\ IF is_url(item) /\ file_path # NoPath /\ file_path \in fsFiles
       THEN \E removed \in BOOLEAN :
              IF removed
              THEN /\ fsFiles' = fsFiles \ {file_path}
                   /\ UNCHANGED success
              ELSE /\ success' = FALSE
                   /\ UNCHANGED fsFiles
       ELSE UNCHANGED <<fsFiles, success>>
    /\ pc' = "returned"
    /\ UNCHANGED <<funcVars, queueVars, histVars, ledger, item, file_path,
                   transcript, summary, backup_path, result, confirm, ledger0,
                   queue0, sumCalls, backup_content, notion_content,
                   handler, work, idx, runs, snapshot, attempts>>

\* A handler that removes the item whatever the operator answers
RemovesAlways(h, ok, response) == h \in {"process_next", "process_all"}

\* Whether handler h calls remove_from_queue(item) when process_queue_item
\* returned ok and the operator answers response: handle_process_next and
\* handle_process_all remove the item on success, and on failure when the
\* operator answers yes; handle_direct_path and main's loop never do.
Removes(h, ok, response) ==
    h \in {"process_next", "process_all"} /\ (ok \/ response)

\* The handler takes process_queue_item's result
HandleResult ==
    /\ pc = "returned"
    /\ \E response \in BOOLEAN :
         /\ confirm' = (handler \in {"process_next", "process_all"}
                           /\ ~success /\ response)
         /\ IF Removes(handler, success, response)
            THEN remove_from_queue(item)
            ELSE UNCHANGED queueVars
    /\ pc' = "handled"
    /\ UNCHANGED <<funcVars, histVars, diskVars, item, file_path, transcript,
                   summary,
                   backup_path, result, success, ledger0, queue0, sumCalls,
                   backup_content, notion_content,
                   handler, work, idx, runs, snapshot, attempts>>

\* A loop that stops at the first item that failed
StopsAtFailure(ok) == ok

\* The for loops of handle_process_all and main have no break and no return:
\* whatever process_queue_item returned, the loop goes on
GoesOn(ok) == TRUE

\* The handler's loop goes on to its next item
NextItem ==
    /\ pc = "handled"
    /\ idx < Len(work)
    /\ GoesOn(success)
    /\ idx' = idx + 1
    /\ BeginItem(work[idx + 1], Queue)
    /\ UNCHANGED <<funcVars, queueVars, histVars, diskVars, handler, work,
                   snapshot>>

\* The handler returns after its last item
HandlerReturns ==
    /\ pc = "handled"
    /\ idx >= Len(work) \/ ~GoesOn(success)
    /\ handler' = "idle"
    /\ work' = <<>>
    /\ idx' = 0
    /\ pc' = "idle"
    /\ item' = NoPath
    /\ file_path' = NoPath
    /\ transcript' = "None"
    /\ summary' = "None"
    /\ backup_path' = "unset"
    /\ result' = "unset"
    /\ success' = FALSE
    /\ confirm' = FALSE
    /\ ledger0' = <<>>
    /\ queue0' = <<>>
    /\ sumCalls' = <<>>
    /\ backup_content' = "unset"
    /\ notion_content' = "unset"
    /\ snapshot' = <<>>
    /\ attempts' = <<>>
    /\ UNCHANGED <<funcVars, queueVars, histVars, diskVars, runs>>

Next ==
    \/ handle_add_item
    \/ handle_clear_queue
    \/ handle_process_next
    \/ handle_process_all
    \/ handle_direct_path
    \/ main_files
    \/ Resolve
    \/ Transcribe
    \/ Summarize
    \/ SaveBackup
    \/ AddToNotion
    \/ Record
    \/ Cleanup
    \/ HandleResult
    \/ NextItem
    \/ HandlerReturns

Spec == Init /\ [][Next]_vars

\* ------------------------------------------------------------- queue calls
\* Item strings a caller may pass to the queue functions: plain names, names
\* with surrounding whitespace, a name starting with '#'.
QueueItems ==
    { <<"a">>, <<"b">>, <<"a", " ">>, <<" ", "a">>, <<"#", "a">> }

\* What the history keeps of a call op(arg) made when load_queue() gave pre:
\* all of it for a call with one item, only its name for a longer one.
CallRecord(op, arg, pre) ==
    IF Len(arg) = 1
    THEN [op |-> op, arg |-> arg, pre |-> pre]
    ELSE [op |-> op, arg |-> <<>>, pre |-> <<>>]

AddCall ==
    \E items \in ListsUpTo(QueueItems, MaxBatch) :
        /\ Len(AppendNew(Queue, items)) <= MaxQueue
        /\ add_to_queue(items)
        /\ lastCall' = CallRecord("add", items, Queue)
        /\ prevCall' = lastCall
        /\ UNCHANGED <<funcVars, diskVars, itemVars, runVars>>

RemoveCall ==
    \E it \in QueueItems :
        /\ remove_from_queue(it)
        /\ lastCall' = CallRecord("remove", <<it>>, Queue)
        /\ prevCall' = lastCall
        /\ UNCHANGED <<funcVars, diskVars, itemVars, runVars>>

QueueNext == AddCall \/ RemoveCall

\* Any sequence of add_to_queue and remove_from_queue calls
QueueSpec == Init /\ [][QueueNext]_vars

\* ------------------------------------------------------------- function calls
TranscribeNext ==
    \/ CallTranscribe
    \/ GroqPass
    \/ OpenAIPass
    \/ TranscribeChunk
    \/ TranscribeReturns
    \/ Crash

\* Any sequence of transcribe_audio_file calls, some of them cut short
TranscribeSpec == Init /\ [][TranscribeNext]_vars

\* Any sequence of estimate_segment_duration_ms calls
PlannerSpec == Init /\ [][Plan]_vars

\* Calls of create_audio_chunks
ChunkerSpec == Init /\ [][Chunk]_vars

\* Calls of parse_markdown_to_notion_blocks
ConverterNext == Convert \/ (cpc = "blocks" /\ ConverterReturns)

ConverterSpec == Init /\ [][ConverterNext]_vars

\* Calls of parse_rich_text
RichTextNext == RichText \/ (cpc = "rich_text" /\ ConverterReturns)

RichTextSpec == Init /\ [][RichTextNext]_vars

\* Calls of parse_markdown_to_notion_blocks, turn by turn of its loop
ScannerNext == CallScan \/ ScanTurn \/ ScanReturns

ScannerSpec == Init /\ [][ScannerNext]_vars

\* The loop is sequential code of a thread that runs: a turn that can be
\* taken is taken, and the function returns when the loop is left
ScannerLive == ScannerSpec /\ WF_vars(ScanTurn) /\ WF_vars(ScanReturns)

\* Calls of clean_ai_response
CleanerNext == Clean \/ CleanReturns

CleanerSpec == Init /\ [][CleanerNext]_vars

\* Calls of process_meetings.process_new_file
MeetingNext == CallProcess \/ Split \/ TranscribeMeeting \/ ProcessReturns

MeetingSpec == Init /\ [][MeetingNext]_vars

\* The folder watcher from its start on: the observer thread and the
\* start-up scan of the calling thread, interleaved step by step
WatcherNext ==
    \/ CreateFile
    \/ StartWatch
    \/ Glob
    \/ ExistingFile
    \/ FileCreated
    \/ \E t \in Threads : TestProcessed(t)
    \/ \E t \in Threads : AddProcessed(t)
    \/ \E t \in Threads : Callback(t)

WatcherSpec == Init /\ [][WatcherNext]_vars

\* ------------------------------------------------------------- queue claims
\* C1: starting from an absent or empty queue file, after any sequence of
\* add_to_queue and remove_from_queue calls, load_queue() returns no item
\* more than once.
C1_QueueHasNoDuplicates == NoDuplicates(Queue)

\* C2: load_queue() returns exactly the list that was passed to the latest
\* save_queue call, same items in the same order.
C2_LoadReturnsWhatWasSaved == saved.called => Queue = saved.items

\* The latest two calls were op1([x]) and then op2([x]) for one item x
CallPair(op1, op2) ==
    /\ prevCall.op = op1
    /\ lastCall.op = op2
    /\ Len(lastCall.arg) = 1
    /\ prevCall.arg = lastCall.arg

\* C3: after add_to_queue([x]); add_to_queue([x]) the queue holds exactly one
\* occurrence of x, and the second call left the queue as the first left it.
C3_AddTwiceIsAddOnce ==
    CallPair("add", "add") =>
        /\ Count(lastCall.arg[1], Queue) = 1
        /\ Queue = lastCall.pre

\* x is an item as load_queue returns it: written to the file and read
\* back, it is itself (not empty, no surrounding whitespace, no leading '#')
Stored(x) == load_queue(TRUE, <<x>>) = <<x>>

\* C4 (as stated): after add_to_queue([x]); remove_from_queue(x) the queue is
\* what it was before the add, for every queue state q and every item x;
\* stated here for the items x that load_queue returns unchanged.
C4_AddRemoveRestoresAlways ==
    (CallPair("add", "remove") /\ Stored(lastCall.arg[1])) =>
        Queue = prevCall.pre

\* C4 (amended): after add_to_queue([x]); remove_from_queue(x) on a queue q,
\* the queue is q again when x was not in q and is an item as load_queue
\* returns it; when x was already in q the add changes nothing and the remove
\* deletes q's first entry equal to x; when x is not as load_queue returns
\* it, what load_queue makes of x is left behind at the end of q.
C4_AddRemoveRestores ==
    CallPair("add", "remove") =>
        LET x == lastCall.arg[1]
            q == prevCall.pre
        IN  /\ (~In(x, q) /\ Stored(x)) => Queue = q
            /\ In(x, q) => Queue = RemoveFirst(q, x)
            /\ (~In(x, q) /\ ~Stored(x)) => Queue = q \o load_queue(TRUE, <<x>>)

\* C4's case: x was added to a non-empty queue that did not hold it, and
\* then removed
C4_Witness ==
    /\ CallPair("add", "remove")
    /\ prevCall.pre # <<>>
    /\ ~In(lastCall.arg[1], prevCall.pre)
    /\ Stored(lastCall.arg[1])

\* after is before without its entry at position k
WithoutEntry(before, k, after) ==
    /\ Len(after) = Len(before) - 1
    /\ \A i \in 1..Len(after) : after[i] = before[IF i < k THEN i ELSE i + 1]

\* C34: remove_from_queue(x) deletes only the first entry equal to x and
\* leaves every other entry in its original relative order; when x is not in
\* the queue, the queue contents are unchanged.
C34_RemoveDeletesFirstMatch ==
    lastCall.op = "remove" =>
        LET x == lastCall.arg[1]
            q == lastCall.pre
        IN  IF In(x, q)
            THEN \E k \in 1..Len(q) :
                    /\ q[k] = x
                    /\ \A j \in 1..(k - 1) : q[j] # x
                    /\ WithoutEntry(q, k, Queue)
            ELSE Queue = q

\* C34's case: x was removed from a queue that held it twice, with another
\* entry between the two
C34_Witness ==
    /\ lastCall.op = "remove"
    /\ Len(lastCall.pre) = 3
    /\ lastCall.pre[1] = lastCall.arg[1]
    /\ lastCall.pre[2] # lastCall.arg[1]
    /\ lastCall.pre[3] = lastCall.arg[1]

\* ------------------------------------------------------------- coordinator claims
QueueHandlers == {"process_next", "process_all"}

\* C5: an item of the queue whose processing completed successfully has been
\* removed from the queue, once, when the handler is done with it: by process
\* next, by process all, and for the files given on the command line.
C5_SuccessRemovesItem ==
    (/\ pc = "handled"
     /\ success
     /\ handler \in QueueHandlers \cup {"main_files"}
     /\ In(item, queue0))
        => Count(item, Queue) = Count(item, queue0) - 1

\* The entries of list other than x, in order
Others(list, x) == LET Other(y) == y # x IN SelectSeq(list, Other)

\* C6: when processing of an item failed, the item is still in the queue
\* unless the operator confirmed its removal, and the other items of the
\* queue are all there in the order they had; nothing changes the queue
\* while the item is processed.
C6_FailureKeepsQueue ==
    /\ pc \in {"resolve", "transcribe", "summarize", "backup", "publish",
                "record", "cleanup", "returned"} => Queue = queue0
    /\ (pc = "handled" /\ ~success) =>
          /\ (In(item, queue0) /\ ~confirm) => In(item, Queue)
          /\ ~confirm => Queue = queue0
          /\ Others(Queue, item) = Others(queue0, item)

\* C6's case: process all failed on an item at the backup, in a queue of
\* several items, and the operator declined to remove it
C6_Witness ==
    /\ pc = "handled"
    /\ handler = "process_all"
    /\ ~success
    /\ ~confirm
    /\ backup_path = "None"
    /\ In(item, queue0)
    /\ Len(queue0) >= 2

\* C7: when the queue is processed, an item that is already recorded in the
\* ledger is not transcribed, summarized or published again.
C7_LedgerPreventsReprocessing ==
    (handler \in QueueHandlers /\ In(item, ledger0)) =>
        /\ transcript = "None"
        /\ summary = "None"
        /\ result # "page"

\* C8: every step leaves the records of the ledger where they are and adds
\* at most one line at the end.
C8_LedgerIsAppendOnly ==
    [][IsPrefix(ledger, ledger') /\ Len(ledger') <= Len(ledger) + 1]_vars

\* C8's case: a path that was already in the ledger was recorded again, and
\* both records are there
C8_Witness ==
    \E i, j \in 1..Len(ledger) : i < j /\ ledger[i] = ledger[j]

\* C9: a successful completion of process_queue_item(item) has appended
\* exactly one record to the ledger, the item itself (for a URL item, the
\* URL), from the moment process_file reports success; a failed completion
\* has appended nothing.
C9_CompletionRecordsItem ==
    /\ (pc \in {"cleanup", "returned"} /\ success) =>
          ledger = Append(ledger0, item)
    /\ (pc = "returned" /\ ~success) => ledger = ledger0

\* C10: a page is created for an item only after a backup file for it has
\* been written.
C10_BackupBeforePublish == result = "page" => backup_path = "path"

AllFailed ==
    /\ Len(sumCalls) = 2
    /\ \A i \in 1..2 : ~Truthy(sumCalls[i].response)

\* C12: when both summarization providers failed, the summary is the raw
\* transcript; the backup is written with it, add_to_notion is called with
\* it, and with the backup written the file is appended to the ledger and
\* process_file returns True.
C12_RawTranscriptFallback ==
    AllFailed =>
        /\ summary = transcript
        /\ pc \in {"publish", "record", "cleanup", "returned", "handled"} =>
              backup_content = transcript
        /\ pc \in {"record", "cleanup", "returned", "handled"} =>
              notion_content = transcript
        /\ (pc \in {"cleanup", "returned", "handled"} /\ backup_path = "path") =>
              ledger = Append(ledger0, file_path)
        /\ (pc = "cleanup" /\ backup_path = "path") => success

\* C12's case: both providers failed, the raw transcript was backed up and
\* published, and the file was recorded
C12_Witness ==
    /\ AllFailed
    /\ pc = "cleanup"
    /\ backup_path = "path"
    /\ result = "page"
    /\ success

\* C13: when both summarization providers failed, what is backed up and
\* published is not the bare transcript text: it carries a mark that tells
\* it from a summary with the same text.
C13_FallbackIsMarked ==
    AllFailed =>
        /\ backup_content # transcript
        /\ notion_content # transcript

\* C16: Gemini is asked first; OpenAI is asked only when Gemini returned
\* None or empty text; the first response that is not empty is the summary,
\* and no provider is asked after it.
C16_ProvidersInOrder ==
    /\ Len(sumCalls) <= 2
    /\ Len(sumCalls) >= 1 => sumCalls[1].provider = "gemini"
    /\ Len(sumCalls) = 2 =>
          /\ sumCalls[2].provider = "openai"
          /\ ~Truthy(sumCalls[1].response)
    /\ \A i \in 1..Len(sumCalls) :
          Truthy(sumCalls[i].response) =>
              /\ i = Len(sumCalls)
              /\ summary = sumCalls[i].response
    /\ (pc = "backup" /\ Len(sumCalls) = 1) => Truthy(sumCalls[1].response)
    /\ pc \in {"backup", "publish", "record"} => sumCalls # <<>>

\* C16's case: Gemini returned empty text, OpenAI was asked and its
\* response is the summary
C16_Witness ==
    /\ Len(sumCalls) = 2
    /\ sumCalls[1].response = ""
    /\ summary = "OpenAI summary"

\* C18: once process_queue_item has finished with a URL item whose download
\* succeeded, the downloaded file no longer exists.
C18_DownloadIsRemoved ==
    (pc \in {"returned", "handled"} /\ is_url(item) /\ file_path # NoPath) =>
        file_path \notin fsFiles

\* C19: process all attempts the items of its queue snapshot in queue order,
\* each once, and returns only when it has attempted them all, whatever
\* failed on the way.
C19_EveryItemAttempted ==
    [][/\ handler = "process_all" => IsPrefix(attempts, snapshot)
       /\ (handler = "process_all" /\ handler' = "idle") => attempts = snapshot
      ]_vars

\* C19's case: process all is done with a queue of several items of which
\* the first failed and was kept
C19_Witness ==
    /\ handler = "process_all"
    /\ pc = "handled"
    /\ Len(snapshot) >= 2
    /\ attempts = snapshot
    /\ In(attempts[1], Queue)
    /\ success

\* C36: when process_file has reported failure for an item, no page for the
\* item was published during the attempt.
C36_FailureLeavesNoPage ==
    (pc = "cleanup" /\ ~success) => result # "page"

\* ------------------------------------------------------------- transcription claims
Services == {"groq", "openai"}

\* The requests made to a service, in order
CallsOf(service) ==
    LET ByService(c) == c.service = service IN SelectSeq(apiCalls, ByService)

\* The service was sent every chunk of the file, in order, and answered all
Complete(service) ==
    LET cs == CallsOf(service)
    IN  /\ Len(cs) = num_chunks
        /\ \A i \in 1..Len(cs) : cs[i].chunk = i /\ ~cs[i].raised

\* The answers of a service, stripped, joined by blank lines
TextOf(service) ==
    LET cs == CallsOf(service)
    IN  Join([i \in 1..Len(cs) |-> strip(cs[i].text)])

\* The word by which an answer of the service is known
WordOf(service) == IF service = "groq" THEN "g" ELSE "o"

\* C14: transcribe_audio_file returns None or the joined answers of one
\* service to every chunk of the file; when a request of a service failed,
\* nothing that service answered is in the result; when no service answered
\* every chunk, the result is None.
C14_NoPartialTranscript ==
    tpc = "returned" =>
        /\ t_result.kind \in {"None", "text"}
        /\ t_result.kind = "text" =>
              \E s \in Services : Complete(s) /\ t_result.text = TextOf(s)
        /\ \A s \in Services :
              (\E i \in 1..Len(apiCalls) :
                   apiCalls[i].service = s /\ apiCalls[i].raised)
                 => ~In(WordOf(s), t_result.text)
        /\ (\A s \in Services : ~Complete(s)) => t_result.kind = "None"

\* C14's case: OpenAI answered the first chunk and failed on a later one,
\* after Groq had failed, and None was returned
C14_Witness ==
    /\ tpc = "returned"
    /\ t_result.kind = "None"
    /\ \E i, j \in 1..Len(apiCalls) :
          /\ i < j
          /\ apiCalls[i].service = "openai"
          /\ apiCalls[i].text # <<>>
          /\ apiCalls[j].service = "openai"
          /\ apiCalls[j].raised

\* C15 (as stated): whenever Groq answered every chunk without an error, its
\* joined transcript is returned and OpenAI is not called.
C15_GroqCompleteIsReturned ==
    (tpc = "returned" /\ Complete("groq")) =>
        /\ t_result = [kind |-> "text", text |-> TextOf("groq")]
        /\ CallsOf("openai") = <<>>

\* C15 (amended): Groq is tried first and OpenAI after it; when Groq answered
\* every chunk and its joined transcript is not empty, that transcript is
\* returned and OpenAI is not called; OpenAI is called only when Groq is not
\* configured, failed, or gave an empty transcript, and then what is
\* returned is OpenAI's transcript or None.
C15_FirstProviderWins ==
    /\ \A i, j \in 1..Len(apiCalls) :
          (i < j /\ apiCalls[i].service = "openai") =>
              apiCalls[j].service = "openai"
    /\ CallsOf("openai") # <<>> =>
          \/ CallsOf("groq") = <<>>
          \/ ~Complete("groq")
          \/ TextOf("groq") = <<>>
    /\ tpc = "returned" =>
          /\ (Complete("groq") /\ TextOf("groq") # <<>>) =>
                /\ t_result = [kind |-> "text", text |-> TextOf("groq")]
                /\ CallsOf("openai") = <<>>
          /\ (CallsOf("openai") # <<>> /\ t_result.kind = "text") =>
                /\ Complete("openai")
                /\ t_result.text = TextOf("openai")

\* C15's case: Groq answered every chunk with nothing, OpenAI was called and
\* its transcript was returned
C15_Witness ==
    /\ tpc = "returned"
    /\ Complete("groq")
    /\ TextOf("groq") = <<>>
    /\ Complete("openai")
    /\ t_result.kind = "text"
    /\ t_result.text # <<>>

\* C17 (as stated): whenever transcribe_audio_file has returned or raised,
\* the temporary chunk directory does not exist.
C17_ChunkDirRemovedAlways ==
    tpc \in {"returned", "raised"} => ~temp_chunks.exists

\* C17 (amended): whenever transcribe_audio_file has returned or raised for
\* a path with a file behind it, the temporary chunk directory and its files
\* do not exist, a directory left by an earlier run included; for None or a
\* path without a file it returns with the directory as it found it.
C17_ChunkDirRemoved ==
    tpc \in {"returned", "raised"} =>
        IF audio = "file"
        THEN temp_chunks = NoDir
        ELSE temp_chunks = temp_chunks0

\* C17's case: a call that found a directory left by a killed run, had a
\* request fail, and returned
C17_Witness ==
    /\ tpc = "returned"
    /\ audio = "file"
    /\ temp_chunks0.exists
    /\ temp_chunks0.files # {}
    /\ \E i \in 1..Len(apiCalls) : apiCalls[i].raised

\* What the service answered for a chunk of the file
AnswerTo(service, chunk) ==
    LET cs == CallsOf(service)
    IN  cs[CHOOSE i \in 1..Len(cs) : cs[i].chunk = chunk].text

\* The services other than one
OtherThan(service) == Services \ {service}

\* C27: within a pass of one service the chunks are sent one at a time in
\* the order of their indices, each after the request before it has come
\* back without an error; a transcript that is returned is the stripped
\* answers of one service to the chunks, in the order of the chunks, joined
\* by blank lines, with nothing of the other service in it.
C27_ChunksInOrder ==
    /\ \A s \in Services :
          LET cs == CallsOf(s)
          IN  \A i \in 1..Len(cs) :
                /\ cs[i].chunk = i
                /\ cs[i].raised => i = Len(cs)
    /\ (tpc = "returned" /\ t_result.kind = "text") =>
          \E s \in Services :
              /\ Len(CallsOf(s)) = num_chunks
              /\ t_result.text =
                    Join([c \in 1..num_chunks |-> strip(AnswerTo(s, c))])
              /\ \A o \in OtherThan(s) : ~In(WordOf(o), t_result.text)

\* C27's case: a file of two or more chunks, Groq answered its first chunk
\* and then failed, and the transcript returned is OpenAI's, with words in it
C27_Witness ==
    /\ tpc = "returned"
    /\ t_result.kind = "text"
    /\ num_chunks >= 2
    /\ In("o", t_result.text)
    /\ \E i \in 1..Len(apiCalls) :
          apiCalls[i].service = "groq" /\ apiCalls[i].text # <<>>

\* The services for which create_audio_chunks was called, in order
ChunkedFor == [i \in 1..Len(chunkings) |-> chunkings[i].service]

\* C28: in a call of transcribe_audio_file on a file, without a Groq client
\* no chunks are made for Groq, no request goes to Groq, the chunk directory
\* is as the call found it when OpenAI's turn comes, and OpenAI is what is
\* tried next.
C28_UnconfiguredGroqIsSkipped ==
    (audio = "file" /\ ~groq_client) =>
        /\ tpc # "groq_chunks"
        /\ CallsOf("groq") = <<>>
        /\ ~In("groq", ChunkedFor)
        /\ tpc = "openai" => temp_chunks = temp_chunks0
        /\ tpc \in {"openai_chunks", "returned", "raised"} =>
              ChunkedFor = <<"openai">>

\* C28's case: no Groq client, a directory left by a killed run, and the
\* call has come to OpenAI's turn
C28_Witness ==
    /\ audio = "file"
    /\ ~groq_client
    /\ tpc = "openai"
    /\ temp_chunks0.exists
    /\ temp_chunks0.files # {}

\* C29: a service for which create_audio_chunks returned no chunks is sent
\* no request; after Groq got none, chunks are made again for OpenAI; after
\* OpenAI got none, transcribe_audio_file returns None.
C29_NoChunksIsFailure ==
    \A i \in 1..Len(chunkings) :
        chunkings[i].outcome = "failed" =>
            /\ CallsOf(chunkings[i].service) = <<>>
            /\ chunkings[i].service = "groq" =>
                  \/ i = Len(chunkings) /\ tpc = "openai"
                  \/ i < Len(chunkings) /\ chunkings[i + 1].service = "openai"
            /\ chunkings[i].service = "openai" =>
                  /\ i = Len(chunkings)
                  /\ tpc = "returned"
                  /\ t_result = [kind |-> "None", text |-> <<>>]

\* C29's case: neither service got chunks and None was returned
C29_Witness ==
    /\ tpc = "returned"
    /\ Len(chunkings) = 2
    /\ chunkings[1] = [service |-> "groq", outcome |-> "failed"]
    /\ chunkings[2] = [service |-> "openai", outcome |-> "failed"]
    /\ apiCalls = <<>>
    /\ t_result.kind = "None"

\* C26: the stages of an item run forward, each entered only after the one
\* before it finished with success: summarizing only with a transcript, the
\* backup only after summarizing, publishing only after the backup was
\* written; after a stage failed no later stage runs.
C26_StagesForward ==
    /\ pc \in {"summarize", "backup", "publish", "record"} =>
          transcript # "None"
    /\ pc \in {"publish", "record"} => backup_content = summary
    /\ pc = "publish" => backup_path = "path"

\* C31: before chunking, a temporary chunk directory left by a prior run is
\* discarded and a fresh one is made: the chunk files present when
\* create_audio_chunks has returned its chunks are exactly those of this
\* invocation, and every chunk submitted is one of them.
C31_ChunkDirIsFresh ==
    tpc \in {"groq_chunks", "openai_chunks"} =>
        /\ temp_chunks.exists
        /\ temp_chunks.files = {chunk_files[i] : i \in 1..Len(chunk_files)}
        /\ \A c \in 1..Len(apiCalls) :
              apiCalls[c].service = (IF tpc = "groq_chunks" THEN "groq"
                                                            ELSE "openai") =>
                  apiCalls[c].chunk \in temp_chunks.files

\* C31's case: the call found the two chunks of a run that was killed, and
\* made the one chunk of its own file
C31_Witness ==
    /\ tpc \in {"groq_chunks", "openai_chunks"}
    /\ temp_chunks0.files = {1, 2}
    /\ Len(chunk_files) = 1

\* ------------------------------------------------------------- planner claims
\* C20: for a positive duration d, a positive bitrate and a positive size
\* ceiling m, estimate_segment_duration_ms returns a duration that is at most
\* d and whose size at the bitrate (ms * kbps * 1000 / 8 / 1000 bytes) is at
\* most m.
C20_PlanWithinBounds ==
    LET kbps == int(remove_k(plan_args.target_bitrate_kbps_str))
    IN  (/\ plan_args.called
         /\ plan_args.audio_duration_ms > 0
         /\ plan_args.max_size_bytes > 0
         /\ kbps.ok
         /\ kbps.value > 0)
            => /\ plan_result.kind = "ms"
               /\ plan_result.ms <= plan_args.audio_duration_ms
               /\ plan_result.ms * kbps.value * 1000
                     <= plan_args.max_size_bytes * 8 * 1000

\* C20's case: the planned duration is shorter than the audio and its size
\* is below the ceiling because of the floor
C20_Witness ==
    LET kbps == int(remove_k(plan_args.target_bitrate_kbps_str))
    IN  /\ plan_args.called
        /\ kbps.ok
        /\ plan_result.kind = "ms"
        /\ plan_result.ms > 0
        /\ plan_result.ms < plan_args.audio_duration_ms
        /\ plan_result.ms * kbps.value < plan_args.max_size_bytes * 8

\* The bitrate of the latest call, as int() reads it
PlanKbps == int(remove_k(plan_args.target_bitrate_kbps_str))

\* The bitrate string of the latest call is malformed, zero or negative
BadBitrate == ~PlanKbps.ok \/ PlanKbps.value <= 0

\* C32 (as stated): estimate_segment_duration_ms returns None when the
\* bitrate string is malformed, when the bitrate is zero or negative and when
\* the duration is zero or negative; in all other cases it returns a
\* positive duration.  Stated here for the calls with a positive ceiling.
C32_UnplannableOrPositiveAlways ==
    (plan_args.called /\ plan_args.max_size_bytes > 0) =>
        IF BadBitrate \/ plan_args.audio_duration_ms <= 0
        THEN plan_result = NoDuration
        ELSE plan_result.kind = "ms" /\ plan_result.ms > 0

\* C32 (amended): estimate_segment_duration_ms returns None when the bitrate
\* string is malformed, when the bitrate is zero or negative, when the
\* duration is zero and when the size ceiling is zero; for a negative
\* duration it returns that duration, and for a ceiling that holds less than
\* a millisecond at the bitrate it returns 0; in all other cases it returns a
\* positive duration.  None and the durations that are not positive are what
\* create_audio_chunks rejects.
C32_UnplannableOrPositive ==
    plan_args.called =>
        LET d == plan_args.audio_duration_ms
            m == plan_args.max_size_bytes
        IN  IF BadBitrate \/ d = 0 \/ m = 0
            THEN plan_result = NoDuration
            ELSE /\ plan_result.kind = "ms"
                 /\ d < 0 => plan_result.ms = d
                 /\ (d > 0 /\ m * 8 < PlanKbps.value) => plan_result.ms = 0
                 /\ (d > 0 /\ m * 8 >= PlanKbps.value) => plan_result.ms > 0

\* C32's case: a call with a good bitrate and a ceiling on an audio without
\* duration
C32_Witness ==
    /\ plan_args.called
    /\ ~BadBitrate
    /\ plan_args.max_size_bytes > 0
    /\ plan_args.audio_duration_ms = 0
    /\ plan_result = NoDuration

\* ------------------------------------------------------------- chunker claims
\* The segment duration create_audio_chunks got for its latest call
Planned ==
    estimate_segment_duration_ms(slice_args.audio_duration_ms,
                                 slice_args.audio_channels,
                                 slice_args.target_bitrate_kbps_str,
                                 slice_args.max_size_bytes)

\* C21: an audio of positive duration d that is less than the duration the
\* size ceiling allows at the bitrate (floor of 8 * m / kbps ms) is exported
\* as exactly one chunk, the slice from 0 to d.
C21_ShortAudioIsOneChunk ==
    LET kbps == int(remove_k(slice_args.target_bitrate_kbps_str))
        d == slice_args.audio_duration_ms
    IN  (/\ slice_args.called
         /\ d > 0
         /\ kbps.ok
         /\ kbps.value > 0
         /\ (d + 1) * kbps.value * 1000 <= slice_args.max_size_bytes * 8 * 1000)
            => chunk_slices = <<[index |-> 0, start_ms |-> 0, end_ms |-> d]>>

\* C21's case: an audio of two or more ms below the allowed duration gave
\* one chunk
C21_Witness ==
    LET kbps == int(remove_k(slice_args.target_bitrate_kbps_str))
    IN  /\ slice_args.called
        /\ slice_args.audio_duration_ms >= 2
        /\ kbps.ok
        /\ kbps.value > 1
        /\ (slice_args.audio_duration_ms + 1) * kbps.value
              <= slice_args.max_size_bytes * 8
        /\ Len(chunk_slices) = 1

\* C30: for a positive duration d and a positive planned duration p <= d the
\* exported slices are [i * p, min((i + 1) * p, d)) for i = 0 .. n - 1 with
\* n the least number with n * p >= d, in the order of i; each is not empty
\* and at most p long, each starts where the one before it ends, the first
\* starts at 0 and the last ends at d.
C30_SlicesTileTheAudio ==
    LET d == slice_args.audio_duration_ms
        p == Planned.ms
        n == Len(chunk_slices)
    IN  (slice_args.called /\ d > 0 /\ Planned.kind = "ms" /\ p > 0 /\ p <= d)
            => /\ (n - 1) * p < d
               /\ d <= n * p
               /\ \A k \in 1..n :
                     /\ chunk_slices[k].index = k - 1
                     /\ chunk_slices[k].start_ms = (k - 1) * p
                     /\ chunk_slices[k].end_ms = Min(k * p, d)
                     /\ chunk_slices[k].start_ms < chunk_slices[k].end_ms
                     /\ chunk_slices[k].end_ms - chunk_slices[k].start_ms <= p
                     /\ k < n =>
                           chunk_slices[k + 1].start_ms = chunk_slices[k].end_ms
               /\ chunk_slices[1].start_ms = 0
               /\ chunk_slices[n].end_ms = d

\* C30's case: two or more slices, the last one shorter than the planned
\* duration
C30_Witness ==
    /\ slice_args.called
    /\ Planned.kind = "ms"
    /\ Planned.ms > 1
    /\ Len(chunk_slices) >= 2
    /\ LET last == chunk_slices[Len(chunk_slices)]
       IN  last.end_ms - last.start_ms < Planned.ms

\* ------------------------------------------------------------- converter claims
\* The text a block carries: the contents of its runs, one after the other
BlockText(block) ==
    Flatten([k \in 1..Len(block.rich_text) |-> block.rich_text[k].content])

\* C22: no block returned by parse_markdown_to_notion_blocks, of any type,
\* carries a text longer than NOTION_MAX_CHUNK_SIZE.
C22_NoBlockTooLong ==
    \A k \in 1..Len(blocks) :
        Len(BlockText(blocks[k])) <= NOTION_MAX_CHUNK_SIZE

\* The characters that delimit bold and italic spans
DelimiterChars == {"*", "_"}

\* A text without the characters that delimit spans
Undelimited(text) ==
    LET Kept(c) == c \notin DelimiterChars IN SelectSeq(text, Kept)

\* The positions of the lines that belong to a paragraph
ParagraphLines(lines) ==
    {i \in 1..Len(lines) : strip(lines[i]) # <<>> /\ ~is_special_line(lines[i])}

\* The content is one paragraph, with nothing but blank lines and headings
\* before and after it
OneParagraph(lines) ==
    /\ ParagraphLines(lines) # {}
    /\ \A i, j \in ParagraphLines(lines) :
          \A m \in i..j : m \in ParagraphLines(lines)
    /\ \A i \in 1..Len(lines) :
          \/ i \in ParagraphLines(lines)
          \/ strip(lines[i]) = <<>>
          \/ startswith(strip(lines[i]), <<"#">>)

\* The text of the paragraph of such a content: its lines, stripped, joined
\* by a space
ParagraphText(lines) ==
    LET InParagraph(l) == strip(l) # <<>> /\ ~is_special_line(l)
        own == SelectSeq(lines, InParagraph)
    IN  JoinWith([k \in 1..Len(own) |-> strip(own[k])], <<" ">>)

\* The positions of the paragraph blocks among the blocks
ParagraphBlocksAt == {k \in 1..Len(blocks) : blocks[k].type = "paragraph"}

\* The texts of the paragraph blocks, in order, one after the other
ParagraphBlocksText ==
    LET IsParagraph(b) == b.type = "paragraph"
        own == SelectSeq(blocks, IsParagraph)
    IN  Flatten([k \in 1..Len(own) |-> BlockText(own[k])])

\* A paragraph of k * NOTION_MAX_CHUNK_SIZE characters, k >= 2, has become k
\* paragraph blocks that follow one another, block c holding no more than
\* NOTION_MAX_CHUNK_SIZE characters, all of them from the c-th piece of the
\* paragraph
SplitInOrder(text) ==
    LET k == Len(text) \div NOTION_MAX_CHUNK_SIZE
    IN  /\ Cardinality(ParagraphBlocksAt) = k
        /\ \E first \in 1..Len(blocks) :
              /\ ParagraphBlocksAt = first..(first + k - 1)
              /\ \A c \in 1..k :
                    LET piece == SubSeq(text,
                                        (c - 1) * NOTION_MAX_CHUNK_SIZE + 1,
                                        c * NOTION_MAX_CHUNK_SIZE)
                        held == BlockText(blocks[first + c - 1])
                    IN  /\ Len(held) <= NOTION_MAX_CHUNK_SIZE
                        /\ Undelimited(held) = Undelimited(piece)

\* The content being converted is one paragraph of k * NOTION_MAX_CHUNK_SIZE
\* characters, k >= 2
WholeBlocksParagraph ==
    /\ cpc = "blocks"
    /\ OneParagraph(content_lines)
    /\ Len(ParagraphText(content_lines)) >= 2 * NOTION_MAX_CHUNK_SIZE
    /\ Len(ParagraphText(content_lines)) % NOTION_MAX_CHUNK_SIZE = 0

\* C23 (as stated): a paragraph of k * NOTION_MAX_CHUNK_SIZE characters,
\* k >= 2, becomes exactly k consecutive paragraph blocks of at most
\* NOTION_MAX_CHUNK_SIZE characters each, in the order of the source, and
\* the texts of these blocks, one after the other, are the paragraph text.
C23_SplitGivesBackTheText ==
    WholeBlocksParagraph =>
        /\ SplitInOrder(ParagraphText(content_lines))
        /\ ParagraphBlocksText = ParagraphText(content_lines)

\* C23 (amended): a paragraph of k * NOTION_MAX_CHUNK_SIZE characters,
\* k >= 2, becomes exactly k consecutive paragraph blocks of at most
\* NOTION_MAX_CHUNK_SIZE characters each, in the order of the source; the
\* text of block c is the c-th piece of the paragraph without the '*' and
\* '_' that parse_rich_text took for delimiters, so that the texts of the
\* blocks, one after the other, are the paragraph text when it holds no '*'
\* and no '_', and the paragraph text without some of them otherwise.
C23_SplitKeepsThePlainText ==
    WholeBlocksParagraph =>
        /\ SplitInOrder(ParagraphText(content_lines))
        /\ Undelimited(ParagraphBlocksText)
              = Undelimited(ParagraphText(content_lines))
        /\ Undelimited(ParagraphText(content_lines))
              = ParagraphText(content_lines)
                 => ParagraphBlocksText = ParagraphText(content_lines)

\* C23's case: a paragraph of two lines after a heading, two blocks long and
\* without delimiters, has become two blocks after the heading's block
C23_Witness ==
    /\ WholeBlocksParagraph
    /\ Cardinality(ParagraphLines(content_lines)) = 2
    /\ Len(ParagraphText(content_lines)) = 2 * NOTION_MAX_CHUNK_SIZE
    /\ Len(blocks) = 3
    /\ blocks[1].type = "heading_1"
    /\ ParagraphBlocksText = ParagraphText(content_lines)

\* The line is a heading, a bullet or a numbered item
IsListed(line) ==
    LET l == strip(line)
    IN  startswith(l, <<"#">>) \/ IsBullet(l) \/ IsNumbered(l)

\* The block of a heading, a bullet or a numbered item, from its line alone:
\* a heading of level min(n, 3) for n leading '#', its text what follows
\* them; a list item whose runs are those of the text after the marker
BlockOfLine(line) ==
    LET l == strip(line)
        n == Len(l) - Len(lstrip_hashes(l))
    IN  IF startswith(l, <<"#">>)
        THEN Block(HeadingType[IF n > 3 THEN 3 ELSE n],
                   <<Plain(strip(SubSeq(l, n + 1, Len(l))))>>)
        ELSE IF IsBullet(l)
        THEN Block("bulleted_list_item",
                   parse_rich_text(strip(SubSeq(l, 3, Len(l)))))
        ELSE Block("numbered_list_item",
                   parse_rich_text(lstrip(SubSeq(l, NumberMark(l) + 1, Len(l)))))

\* The line lies after the opening fence of a code block that is not closed
\* before it
InCode(lines, i) ==
    Cardinality({j \in 1..(i - 1) : IsFence(strip(lines[j]))}) % 2 = 1

\* The heading and list item blocks among the blocks, in order
ListedBlocks ==
    LET Listed(b) == b.type \in {"heading_1", "heading_2", "heading_3",
                                 "bulleted_list_item", "numbered_list_item"}
    IN  SelectSeq(blocks, Listed)

\* The blocks of the heading, bullet and numbered lines at the positions, in
\* the order of the lines
BlocksOfLines(lines, positions) ==
    LET Counted(i) == Cardinality({j \in positions : j <= i})
        at == [k \in 1..Cardinality(positions) |->
                  CHOOSE i \in positions : Counted(i) = k]
    IN  [k \in 1..Cardinality(positions) |-> BlockOfLine(lines[at[k]])]

\* C24 (as stated): the heading and list item blocks are, in the order of
\* the source, one per line that starts with '#', with a bullet marker or
\* with '<number>.': a heading of level min(n, 3), a bulleted item or a
\* numbered item with the marker stripped; blank lines give no block.
C24_OneBlockPerLine ==
    cpc = "blocks" =>
        /\ ListedBlocks =
              BlocksOfLines(content_lines,
                            {i \in 1..Len(content_lines) :
                                IsListed(content_lines[i])})
        /\ (\A i \in 1..Len(content_lines) : strip(content_lines[i]) = <<>>)
              => blocks = <<>>

\* C24 (amended): the same for the lines outside fenced code blocks; the
\* lines between an opening fence and the next fence, or the end of the
\* content, are the text of one code block whatever they start with.  A
\* content of nothing but headings, list items and blank lines becomes
\* exactly these blocks.
C24_OneBlockPerLineOutsideCode ==
    cpc = "blocks" =>
        LET listed == {i \in 1..Len(content_lines) :
                          /\ IsListed(content_lines[i])
                          /\ ~InCode(content_lines, i)}
        IN  /\ ListedBlocks = BlocksOfLines(content_lines, listed)
            /\ (\A i \in 1..Len(content_lines) :
                    strip(content_lines[i]) = <<>> \/ i \in listed)
                  => blocks = BlocksOfLines(content_lines, listed)

\* C24's case: a heading of four '#' and a run of two bullet lines, the
\* second with an italic span, have become a heading of level 3 and two
\* bulleted items
C24_Witness ==
    /\ cpc = "blocks"
    /\ Len(content_lines) = 3
    /\ startswith(content_lines[1], <<"#", "#", "#", "#">>)
    /\ IsBullet(strip(content_lines[2]))
    /\ IsBullet(strip(content_lines[3]))
    /\ Len(blocks) = 3
    /\ blocks[1].type = "heading_3"
    /\ blocks[2].type = "bulleted_list_item"
    /\ blocks[3] = Block("bulleted_list_item", <<Run(<<"b">>, FALSE, TRUE)>>)

\* ------------------------------------------------------------- response cleaning claims
\* C33: clean_ai_response strips preamble from the start of the response
\* only: the lines after the first line of the trimmed response are returned
\* as they are, even when one of them matches a pattern, and a response whose
\* first line matches no pattern is returned unchanged apart from the
\* surrounding white space.
C33_OnlyTheStartIsStripped ==
    kpc = "cleaned" =>
        LET trimmed == strip_text(response_in)
            rest == SubSeq(trimmed, LineEnd(trimmed, 1) + 1, Len(trimmed))
            matched == \E n \in 1..Len(preamble_patterns) :
                          PreambleEnd(preamble_patterns[n], lower(trimmed), 1) > 0
        IN  /\ endswith(cleaned_out, strip_text(rest))
            /\ ~matched => cleaned_out = trimmed

\* ------------------------------------------------------------- meeting recording claims
\* C35: when process_new_file has returned, the temporary directory that
\* split_audio_file made is removed, on every exit path: also when writing
\* the chunks or transcribing a chunk raised.
C35_ChunkDirRemovedOnReturn ==
    mpc \in {"returned", "transcribed"} => "temp" \notin dirs

\* The sizes of files, added up
RECURSIVE TotalSize(_)
TotalSize(files) ==
    IF files = <<>> THEN 0 ELSE Head(files).size + TotalSize(Tail(files))

\* C39: for a file of s bytes and a ceiling of m bytes, split_audio_file
\* returns the file itself and no temporary directory when s <= m; otherwise
\* it returns at least ceil(s / m) chunks, numbered in order, none empty,
\* none above m bytes, that add up to s bytes and are the files of the
\* temporary directory.  The directory of the file is never removed.
C39_SplitCoversTheFile ==
    LET s == split_args.file_size
        m == split_args.max_chunk_size
    IN  /\ "source" \in dirs
        /\ mpc = "transcribe" =>
              IF s <= m
              THEN /\ meeting_chunks = <<SourceFile(s)>>
                   /\ ~chunks_created
                   /\ "temp" \notin dirs
              ELSE /\ chunks_created
                   /\ Len(meeting_chunks) * m >= s
                   /\ \A t \in 1..Len(meeting_chunks) :
                         /\ meeting_chunks[t].dir = "temp"
                         /\ meeting_chunks[t].index = t
                         /\ meeting_chunks[t].size > 0
                         /\ meeting_chunks[t].size <= m
                         /\ temp_files[t] = meeting_chunks[t].size
                   /\ Len(temp_files) = Len(meeting_chunks)
                   /\ TotalSize(meeting_chunks) = s

\* C39's case: a file was split into three chunks, the last one shorter
C39_Witness ==
    /\ mpc = "transcribe"
    /\ Len(meeting_chunks) = 3
    /\ meeting_chunks[3].size < meeting_chunks[1].size

\* ------------------------------------------------------------- folder watcher claims
\* C37: the folder watcher passes each audio file path to the callback at
\* most once, under every interleaving of the observer thread's on_created
\* events with the start-up scan of the calling thread.
C37_CallbackAtMostOnce == \A f \in WatchPaths : callbacks[f] <= 1

\* ------------------------------------------------------------- scanning loop claims
\* Every turn of the scanning loop leaves the index at least one line on
ScanAdvances ==
    [][(spc = "scanning" /\ spc' = "scanning") => scan_i' >= scan_i + 1]_vars

\* The lines before the index were taken by one turn each, the lines from
\* the index on by none
ScanTakesEachLineOnce ==
    spc = "scanning" =>
        \A k \in 1..Len(scan_lines) :
            consumed[k] = (IF k < scan_i THEN 1 ELSE 0)

\* C38: parse_markdown_to_notion_blocks terminates on every input: each turn
\* of its scanning loop advances the line index by at least one, every line
\* is taken by exactly one turn (as part of a construct, or skipped as a
\* blank line or a fence), an unterminated fence takes the rest of the input,
\* and the loop is left.
C38_ScanTerminates ==
    /\ ScanAdvances
    /\ []ScanTakesEachLineOnce
    /\ (spc = "scanning") ~> (spc = "idle")

\* C38's case: the loop has gone over a content whose second line opens a
\* fence that is never closed
C38_Witness ==
    /\ spc = "scanning"
    /\ Len(scan_lines) = 3
    /\ IsFence(scan_lines[2])
    /\ ~IsFence(scan_lines[1])
    /\ ~IsFence(scan_lines[3])
    /\ scan_i > Len(scan_lines)

\* ------------------------------------------------------------- rich text claims
\* The delimiters of spans, the longer ones first, and what they stand for
Delimiters == << <<"*", "*">>, <<"_", "_">>, <<"*">>, <<"_">> >>

\* The length of the text from position pos up to the next delimiter
\* character
PlainLength(text, pos) ==
    LET stops == {j \in pos..Len(text) : text[j] \in DelimiterChars}
    IN  IF stops = {} THEN Len(text) - pos + 1
        ELSE (CHOOSE j \in stops : \A k \in stops : j <= k) - pos

\* The delimiter with which the text opens a span at position pos: a
\* delimiter, a text of one or more characters without '*' and '_', and the
\* same delimiter again; 0 when no span opens there
SpanAt(text, pos) ==
    LET Opens(d) ==
            LET n == Len(Delimiters[d])
                m == PlainLength(text, pos + n)
            IN  /\ pos + n - 1 <= Len(text)
                /\ SubSeq(text, pos, pos + n - 1) = Delimiters[d]
                /\ m >= 1
                /\ pos + 2 * n + m - 1 <= Len(text)
                /\ SubSeq(text, pos + n + m, pos + 2 * n + m - 1)
                      = Delimiters[d]
        found == {d \in 1..4 : Opens(d)}
    IN  IF found = {} THEN 0 ELSE CHOOSE d \in found : \A e \in found : d <= e

\* The reading of a text from position pos as spans that are not nested and
\* do not overlap, with plain text before, between and after them: whether
\* there is one, and the runs it asks for, in order
RECURSIVE Reading(_, _)
Reading(text, pos) ==
    IF pos > Len(text) THEN [ok |-> TRUE, runs |-> <<>>]
    ELSE IF text[pos] \notin DelimiterChars
    THEN LET m == PlainLength(text, pos)
             rest == Reading(text, pos + m)
         IN  [ok |-> rest.ok,
              runs |-> <<Plain(SubSeq(text, pos, pos + m - 1))>> \o rest.runs]
    ELSE IF SpanAt(text, pos) = 0 THEN [ok |-> FALSE, runs |-> <<>>]
    ELSE LET d == SpanAt(text, pos)
             n == Len(Delimiters[d])
             m == PlainLength(text, pos + n)
             rest == Reading(text, pos + 2 * n + m)
         IN  [ok |-> rest.ok,
              runs |-> <<Run(SubSeq(text, pos + n, pos + n + m - 1),
                             d <= 2, d > 2)>> \o rest.runs]

\* C25: for a text made of spans **x**, __x__, *x* and _x_ and of plain text
\* around them, parse_rich_text gives, in the order of the text, a bold run
\* with content x for each of the first two, an italic run with content x
\* for each of the other two, and a plain run for each piece of plain text;
\* no run holds a delimiter.
C25_SpansBecomeRuns ==
    (cpc = "rich_text" /\ text_in # <<>> /\ Reading(text_in, 1).ok) =>
        rich_text_out = Reading(text_in, 1).runs
=============================================================================
